---- MODULE Spec2Model ----
(***************************************************************************)
(* A model of casky, a Bitcask-style key/value store: an append-only log   *)
(* of CRC-framed records on disk and a bucketed, collision-chained index   *)
(* (the keydir) in memory.  Files are byte sequences, strings are          *)
(* sequences of non-zero bytes, and every operation of the library is one  *)
(* action translated from casky.c / utils.c / crc.c.                       *)
(***************************************************************************)
EXTENDS Integers, Sequences, FiniteSets, TLC

(***************************************************************************)
(* Bounds of the model.                                                    *)
(***************************************************************************)
MaxTime == 2
MaxRecords == 3
MaxTTL == 1
MaxFaultCalls == 2
MaxTamperRecords == 2
MaxThreads == 2
MaxThreadCalls == 2

(***************************************************************************)
(* Inputs.  Keys "a", "b" and "zx": "b" and "zx" hash to the same bucket   *)
(* (455), "a" to another one (452).  Values "" and "1": casky_put rejects  *)
(* only a null value, so the empty string is an accepted input.            *)
(***************************************************************************)
Keys == { <<97>>, <<98>>, <<122, 120>> }
Values == { <<>>, <<49>> }
TTLs == 0..MaxTTL

\* a null pointer where a string is expected: no string holds a negative byte
NULL == << -1 >>

(***************************************************************************)
(* Bit and byte arithmetic.                                                *)
(***************************************************************************)
RECURSIVE XorN(_, _, _)
XorN(a, b, n) ==
  IF n = 0 THEN 0
  ELSE ((a + b) % 2) + 2 * XorN(a \div 2, b \div 2, n - 1)

\* the XOR of two 4-bit values, tabulated once
RECURSIVE Xor4Row(_, _)
Xor4Row(a, b) ==
  IF b = 0 THEN (0 :> XorN(a, 0, 4)) ELSE Xor4Row(a, b - 1) @@ (b :> XorN(a, b, 4))

RECURSIVE Xor4Rows(_)
Xor4Rows(a) ==
  IF a = 0 THEN (0 :> Xor4Row(0, 15)) ELSE Xor4Rows(a - 1) @@ (a :> Xor4Row(a, 15))

Xor4Table == Xor4Rows(15)

Xor8(a, b) ==
  Xor4Table[a % 16][b % 16] + 16 * Xor4Table[a \div 16][b \div 16]

Xor32(x, y) == << Xor8(x[1], y[1]), Xor8(x[2], y[2]), Xor8(x[3], y[3]), Xor8(x[4], y[4]) >>

\* a 32-bit word is held as its four bytes, least significant first
Shr1(c) == << (c[1] \div 2) + 128 * (c[2] % 2),
              (c[2] \div 2) + 128 * (c[3] % 2),
              (c[3] \div 2) + 128 * (c[4] % 2),
              (c[4] \div 2) >>

Shr8(c) == << c[2], c[3], c[4], 0 >>

CrcPoly == << 32, 131, 184, 237 >>   \* 0xEDB88320

RECURSIVE CrcRound(_, _)
CrcRound(c, j) ==
  IF j = 0 THEN c
  ELSE CrcRound(IF c[1] % 2 = 1 THEN Xor32(CrcPoly, Shr1(c)) ELSE Shr1(c), j - 1)

\* init_crc32_table: entry i is i put through eight rounds
RECURSIVE init_crc32_table(_, _)
init_crc32_table(lo, hi) ==
  IF lo = hi THEN (lo :> CrcRound(<<lo, 0, 0, 0>>, 8))
  ELSE init_crc32_table(lo, (lo + hi) \div 2) @@ init_crc32_table((lo + hi) \div 2 + 1, hi)

crc32_table == init_crc32_table(0, 255)

RECURSIVE CrcFeed(_, _, _)
CrcFeed(crc, buf, i) ==
  \* (the test on crc[1] makes TLC evaluate the running CRC at every byte)
  IF i > Len(buf) \/ crc[1] < 0 THEN crc
  ELSE CrcFeed(Xor32(crc32_table[Xor8(crc[1], buf[i])], Shr8(crc)), buf, i + 1)

casky_crc32(buf) == Xor32(CrcFeed(<<255, 255, 255, 255>>, buf, 1), <<255, 255, 255, 255>>)

(***************************************************************************)
(* Fixed-width little-endian integers, as fwrite/fread of a uint32_t or a  *)
(* uint64_t lay them out.  U64Cap stands for every value at or above it:   *)
(* the clock and every length of the model stay far below.                 *)
(***************************************************************************)
U64Cap == 4194304

RECURSIVE EncodeLE(_, _)
EncodeLE(n, w) ==
  IF w = 0 THEN <<>> ELSE <<n % 256>> \o EncodeLE(n \div 256, w - 1)

RECURSIVE DecodeLE(_, _)
DecodeLE(bytes, i) ==
  IF i > Len(bytes) THEN 0
  ELSE LET hi == DecodeLE(bytes, i + 1)
       IN  IF hi >= U64Cap \div 256 THEN U64Cap ELSE bytes[i] + 256 * hi

Slice(s, from, n) == SubSeq(s, from, from + n - 1)

(***************************************************************************)
(* C strings: a buffer read as a string ends at its first zero byte.       *)
(***************************************************************************)
RECURSIVE strlen(_, _)
strlen(buf, i) ==
  IF i > Len(buf) \/ buf[i] = 0 THEN i - 1 ELSE strlen(buf, i + 1)

CStr(buf) == SubSeq(buf, 1, strlen(buf, 1))

(***************************************************************************)
(* casky_djb2_hash_xor.  unsigned long arithmetic wraps modulo 2^64; the   *)
(* hash is only ever used modulo num_buckets = 1024, so it is kept modulo  *)
(* HashMod, a divisor of 2^64 and a multiple of 1024.                      *)
(***************************************************************************)
HashMod == 1024 * 1024
CASKY_INITIAL_BUCKETS_NUM == 1024

RECURSIVE HashFrom(_, _, _)
HashFrom(hash, str, i) ==
  IF i > Len(str) THEN hash
  ELSE HashFrom(XorN((hash * 33) % HashMod, str[i], 20), str, i + 1)

casky_djb2_hash_xor(str) == HashFrom(5381, str, 1)

\* the hashes of the model's keys, tabulated once
HashTable == [key \in Keys |-> casky_djb2_hash_xor(key)]

HashOf(key) == IF key \in Keys THEN HashTable[key] ELSE casky_djb2_hash_xor(key)

(***************************************************************************)
(* The record the writer lays out:                                         *)
(*   [crc:4][timestamp:8][expires:8][key_len:4][value_len:4][key][value]   *)
(* with the CRC taken over everything after the CRC field.  A NULL value   *)
(* gives value_len 0 and no value bytes.                                   *)
(***************************************************************************)
RecordBody(key, value, timestamp, expires) ==
  LET key_len == Len(key)
      value_len == IF value = NULL THEN 0 ELSE Len(value)
  IN  EncodeLE(timestamp, 8) \o EncodeLE(expires, 8)
        \o EncodeLE(key_len, 4) \o EncodeLE(value_len, 4)
        \o key \o (IF value = NULL THEN <<>> ELSE value)

EncodeRecord(key, value, timestamp, expires) ==
  LET buf == RecordBody(key, value, timestamp, expires)
  IN  casky_crc32(buf) \o buf

HeaderLen == 28

\* the records of the model's inputs, tabulated once
RecordTable ==
  [key \in Keys, value \in Values \cup {NULL},
   timestamp \in 0..MaxTime, expires \in 0..(MaxTime + MaxTTL) |->
     EncodeRecord(key, value, timestamp, expires)]

RecordBytes(key, value, timestamp, expires) ==
  IF <<key, value, timestamp, expires>> \in DOMAIN RecordTable
  THEN RecordTable[key, value, timestamp, expires]
  ELSE EncodeRecord(key, value, timestamp, expires)
(***************************************************************************)
(* casky_write_data_to_file(fp, ...): one record appended to the file      *)
(* behind the handle.  It returns -1, with nothing written, when opening   *)
(* the stream or allocating the CRC buffer fails (fault "append"); the     *)
(* results of fwrite, fflush and fsync are not looked at.                  *)
(***************************************************************************)
casky_write_data_to_file(bytes, key, value, timestamp, expires) ==
  bytes \o RecordBytes(key, value, timestamp, expires)

\* A write that fails (fwrite, fflush or fsync; fault "write") goes unnoticed:
\* the function returns 0 all the same, and the file has got a part of the
\* record only: nothing, the header, or all but the last byte.
WriteCuts(rec) == { 0, HeaderLen, Len(rec) - 1 }

(***************************************************************************)
(* The program's state.                                                    *)
(***************************************************************************)
VARIABLES
  now,          \* the wall clock, time(NULL)
  db,           \* the caller's KeyDir pointer: "NULL" or "open"
  kd,           \* the KeyDir structure the pointer refers to
  log_exists,   \* whether a file exists at the log path
  logfile,      \* the bytes of the log file
  tmpfiles,     \* the contents of the <logfile>.XXXXXX files in the directory
  casky_errno,  \* the process-global error indicator
  last,         \* the last library call and what it returned
  nrec,         \* records put and delete have appended so far (bounds the model)
  nfault,       \* I/O failures met so far (bounds the model)
  hist,         \* what the callers did so far (read by the properties only)
  lock,         \* kd->lock of the thread-safe build: the thread holding it, 0 if none
  stats_lock,   \* casky_statistics.lock: the thread holding it, 0 if none
  pc,           \* where each thread of the thread-safe build is in its call
  ncall,        \* put and delete calls the threads have started (bounds the model)
  conn,         \* the client connection of caskyd: "none", "open" or "closed"
  reply,        \* the line caskyd sent last on the connection
  server,       \* caskyd's main thread, its flags and its handler threads
  casky_statistics,  \* the counters of the process
  initialized   \* the static flag of casky_open: 1 once casky_stats_init has run

\* the state only the thread-safe build has
threads == << lock, stats_lock, pc, ncall >>

\* the state only the daemon has
daemon == << conn, reply, server >>

\* the statistics and the flag that guards their initialisation
stats == << casky_statistics, initialized >>

vars == << now, db, kd, log_exists, logfile, tmpfiles, casky_errno, last, nrec, nfault, hist,
           lock, stats_lock, pc, ncall, conn, reply, server, casky_statistics, initialized >>

\* a line of the protocol: its text, and the value after VALUE
Reply(text, value) == [text |-> text, value |-> value]

\* the connections caskyd may accept
MaxClients == 2

Clients == 1..MaxClients

\* no caskyd in the process
NoServer ==
  [main |-> "none", running |-> 1, server_fd |-> -1, active_clients |-> 0, waited |-> 0,
   client |-> [c \in Clients |-> "none"]]

\* caskyd in its accept loop, the engine opened and the socket listening
Listening ==
  [main |-> "accept", running |-> 1, server_fd |-> 3, active_clients |-> 0, waited |-> 0,
   client |-> [c \in Clients |-> "none"]]

Threads == 1..MaxThreads

\* a thread that is in no call
Idle == [at |-> "idle", op |-> "none", key |-> NULL, value |-> NULL, tmp |-> <<>>, seen |-> <<>>]

CASKY_OK == "CASKY_OK"
CASKY_ERR_INVALID_PATH == "CASKY_ERR_INVALID_PATH"
CASKY_ERR_INVALID_POINTER == "CASKY_ERR_INVALID_POINTER"
CASKY_ERR_IO == "CASKY_ERR_IO"
CASKY_ERR_MEMORY == "CASKY_ERR_MEMORY"
CASKY_ERR_CORRUPT == "CASKY_ERR_CORRUPT"
CASKY_ERR_INVALID_KEY == "CASKY_ERR_INVALID_KEY"
CASKY_ERR_KEY_NOT_FOUND == "CASKY_ERR_KEY_NOT_FOUND"

LogPath == "testdb2.log"

(***************************************************************************)
(* The keydir.  root maps a bucket index to its chain, a sequence of       *)
(* entries in link order; a bucket whose head is NULL is left out of the   *)
(* domain.                                                                 *)
(***************************************************************************)
Entry(key, value, timestamp, expiration_ts) ==
  [key |-> key, value |-> value, timestamp |-> timestamp, expiration_ts |-> expiration_ts]

\* calloc'ed KeyDir, no file attached
NoKeyDir ==
  [num_entries |-> 0, num_buckets |-> 0, root |-> <<>>, filename |-> "",
   log |-> "NULL", sync_on_write |-> 0, corrupted_dir |-> 0]

BucketIndex(k, key) == HashOf(key) % k.num_buckets

Chain(k, b) == IF b \in DOMAIN k.root THEN k.root[b] ELSE <<>>

SetChain(root, b, chain) ==
  IF chain = <<>>
  THEN [c \in DOMAIN root \ {b} |-> root[c]]
  ELSE [c \in DOMAIN root \cup {b} |-> IF c = b THEN chain ELSE root[c]]

\* the position of the first node of the chain holding the key, 0 if none
RECURSIVE FindNode(_, _, _)
FindNode(chain, key, i) ==
  IF i > Len(chain) THEN 0
  ELSE IF chain[i].key = key THEN i
  ELSE FindNode(chain, key, i + 1)

RemoveAt(chain, i) == SubSeq(chain, 1, i - 1) \o SubSeq(chain, i + 1, Len(chain))

\* casky_put_in_memory that leaves the value of a node it finds as it was
casky_put_in_memory_keep_value(k, key, value, timestamp, expires) ==
  IF key = NULL \/ value = NULL THEN k
  ELSE
    LET b == BucketIndex(k, key)
        chain == Chain(k, b)
        i == FindNode(chain, key, 1)
    IN  IF i > 0
        THEN [k EXCEPT !.root = SetChain(k.root, b,
                 [chain EXCEPT ![i] = Entry(chain[i].key, chain[i].value, timestamp, expires)])]
        ELSE [k EXCEPT !.root = SetChain(k.root, b,
                 Append(chain, Entry(key, value, timestamp, expires))),
                       !.num_entries = k.num_entries + 1]

\* casky_put_in_memory that appends a node without looking for the key
casky_put_in_memory_always_append(k, key, value, timestamp, expires) ==
  IF key = NULL \/ value = NULL THEN k
  ELSE
    LET b == BucketIndex(k, key)
    IN  [k EXCEPT !.root = SetChain(k.root, b,
                 Append(Chain(k, b), Entry(key, value, timestamp, expires))),
                  !.num_entries = k.num_entries + 1]

\* casky_put_in_memory that puts a new node at the head of the bucket and
\* loses the chain that was there
casky_put_in_memory_replace_chain(k, key, value, timestamp, expires) ==
  IF key = NULL \/ value = NULL THEN k
  ELSE
    LET b == BucketIndex(k, key)
        chain == Chain(k, b)
        i == FindNode(chain, key, 1)
    IN  IF i > 0
        THEN [k EXCEPT !.root = SetChain(k.root, b,
                 [chain EXCEPT ![i] = Entry(chain[i].key, value, timestamp, expires)])]
        ELSE [k EXCEPT !.root = SetChain(k.root, b,
                 << Entry(key, value, timestamp, expires) >>),
                       !.num_entries = k.num_entries + 1]

casky_put_in_memory(k, key, value, timestamp, expires) ==
  IF key = NULL \/ value = NULL THEN k
  ELSE
    LET b == BucketIndex(k, key)
        chain == Chain(k, b)
        i == FindNode(chain, key, 1)
    IN  IF i > 0
        THEN [k EXCEPT !.root = SetChain(k.root, b,
                 [chain EXCEPT ![i] = Entry(chain[i].key, value, timestamp, expires)])]
        ELSE [k EXCEPT !.root = SetChain(k.root, b,
                 Append(chain, Entry(key, value, timestamp, expires))),
                       !.num_entries = k.num_entries + 1]

\* casky_delete_from_memory that reports the node found without unlinking it
casky_delete_from_memory_no_unlink(k, key) ==
  IF key = NULL THEN [kd |-> k, found |-> 0]
  ELSE
    LET i == FindNode(Chain(k, BucketIndex(k, key)), key, 1)
    IN  [kd |-> k, found |-> IF i > 0 THEN 1 ELSE 0]

\* casky_delete_from_memory that unlinks the head of the chain, whichever node matched
casky_delete_from_memory_unlink_head(k, key) ==
  IF key = NULL THEN [kd |-> k, found |-> 0]
  ELSE
    LET b == BucketIndex(k, key)
        chain == Chain(k, b)
        i == FindNode(chain, key, 1)
    IN  IF i > 0
        THEN [kd |-> [k EXCEPT !.root = SetChain(k.root, b, RemoveAt(chain, 1)),
                               !.num_entries = k.num_entries - 1],
              found |-> 1]
        ELSE [kd |-> k, found |-> 0]

\* the keydir after the call, and the value returned (1 found, 0 not found)
casky_delete_from_memory(k, key) ==
  IF key = NULL THEN [kd |-> k, found |-> 0]
  ELSE
    LET b == BucketIndex(k, key)
        chain == Chain(k, b)
        i == FindNode(chain, key, 1)
    IN  IF i > 0
        THEN [kd |-> [k EXCEPT !.root = SetChain(k.root, b, RemoveAt(chain, i)),
                               !.num_entries = k.num_entries - 1],
              found |-> 1]
        ELSE [kd |-> k, found |-> 0]

IsExpired(e, t) == e.expiration_ts > 0 /\ e.expiration_ts <= t
(***************************************************************************)
(* casky_get_from_memory: walks the chain of the key's bucket.  nodes is   *)
(* what is left of the walk, following the links as they were when the     *)
(* walk reached them.  A matching, expired node is removed with            *)
(* casky_delete_from_memory, which frees it, and the walk then goes on     *)
(* from the freed node's next link: uaf records that the freed node was    *)
(* read, and the result given is the one obtained when the stale link      *)
(* still holds what it held.                                               *)
(***************************************************************************)
RECURSIVE GetWalk(_, _, _, _, _)
GetWalk(k, key, t, nodes, uaf) ==
  IF nodes = <<>>
  THEN [kd |-> k, val |-> NULL, err |-> CASKY_ERR_KEY_NOT_FOUND, uaf |-> uaf]
  ELSE IF Head(nodes).key = key
  THEN IF IsExpired(Head(nodes), t)
       THEN GetWalk(casky_delete_from_memory(k, key).kd, key, t, Tail(nodes), TRUE)
       ELSE [kd |-> k, val |-> Head(nodes).value, err |-> CASKY_OK, uaf |-> uaf]
  ELSE GetWalk(k, key, t, Tail(nodes), uaf)

casky_get_from_memory(k, key, t) ==
  GetWalk(k, key, t, Chain(k, BucketIndex(k, key)), FALSE)

(***************************************************************************)
(* The sweep of casky_expire over one chain and over every bucket.         *)
(***************************************************************************)
\* the sweep that, having removed a node, steps over the one after it
RECURSIVE ExpireChain_skips_next(_, _)
ExpireChain_skips_next(chain, t) ==
  IF chain = <<>> THEN <<>>
  ELSE IF IsExpired(Head(chain), t)
  THEN IF Tail(chain) = <<>> THEN <<>>
       ELSE <<Head(Tail(chain))>> \o ExpireChain_skips_next(Tail(Tail(chain)), t)
  ELSE <<Head(chain)>> \o ExpireChain_skips_next(Tail(chain), t)

RECURSIVE ExpireChain(_, _)
ExpireChain(chain, t) ==
  IF chain = <<>> THEN <<>>
  ELSE IF IsExpired(Head(chain), t) THEN ExpireChain(Tail(chain), t)
  ELSE <<Head(chain)>> \o ExpireChain(Tail(chain), t)

RECURSIVE SumLen(_, _)
SumLen(root, bs) ==
  IF bs = {} THEN 0
  ELSE LET b == CHOOSE c \in bs : TRUE
       IN  Len(root[b]) + SumLen(root, bs \ {b})

NodeCount(k) == SumLen(k.root, DOMAIN k.root)

\* the sweep that unlinks the expired nodes without counting them off
ExpireSweep_no_count(k, t) ==
  LET swept == [b \in DOMAIN k.root |-> ExpireChain(k.root[b], t)]
      kept == {b \in DOMAIN k.root : swept[b] # <<>>}
  IN  [k EXCEPT !.root = [b \in kept |-> swept[b]]]

ExpireSweep(k, t) ==
  LET swept == [b \in DOMAIN k.root |-> ExpireChain(k.root[b], t)]
      kept == {b \in DOMAIN k.root : swept[b] # <<>>}
      root2 == [b \in kept |-> swept[b]]
  IN  [k EXCEPT !.root = root2,
                !.num_entries = k.num_entries - (NodeCount(k) - SumLen(root2, kept))]

(***************************************************************************)
(* The reader of casky_init_kd_from_file.  ReadRecord is one turn of the   *)
(* fread sequence at offset pos (1-based): ok is FALSE when any fread      *)
(* comes back short, which ends the loop.                                  *)
(***************************************************************************)
\* the reader that takes a record whose value is cut short, with zero bytes
\* for the value
ReadRecord_partial_value(bytes, pos) ==
  LET remaining == Len(bytes) - pos + 1
  IN  IF remaining < HeaderLen THEN [ok |-> FALSE]
      ELSE
        LET key_len == DecodeLE(Slice(bytes, pos + 20, 4), 1)
            value_len == DecodeLE(Slice(bytes, pos + 24, 4), 1)
            short == value_len > remaining - HeaderLen - key_len
        IN  IF key_len > remaining - HeaderLen THEN [ok |-> FALSE]
            ELSE IF short /\ value_len > 8 THEN [ok |-> FALSE]
            ELSE [ok |-> TRUE,
                  crc |-> Slice(bytes, pos, 4),
                  timestamp |-> DecodeLE(Slice(bytes, pos + 4, 8), 1),
                  expires |-> DecodeLE(Slice(bytes, pos + 12, 8), 1),
                  key_len |-> key_len,
                  value_len |-> value_len,
                  key |-> Slice(bytes, pos + HeaderLen, key_len),
                  value |-> IF short THEN [b \in 1..value_len |-> 0]
                            ELSE Slice(bytes, pos + HeaderLen + key_len, value_len),
                  next |-> IF short THEN Len(bytes) + 1
                           ELSE pos + HeaderLen + key_len + value_len]

ReadRecord(bytes, pos) ==
  LET remaining == Len(bytes) - pos + 1
  IN  IF remaining < HeaderLen THEN [ok |-> FALSE]
      ELSE
        LET key_len == DecodeLE(Slice(bytes, pos + 20, 4), 1)
            value_len == DecodeLE(Slice(bytes, pos + 24, 4), 1)
        IN  IF key_len > remaining - HeaderLen THEN [ok |-> FALSE]
            ELSE IF value_len > remaining - HeaderLen - key_len THEN [ok |-> FALSE]
            ELSE [ok |-> TRUE,
                  crc |-> Slice(bytes, pos, 4),
                  timestamp |-> DecodeLE(Slice(bytes, pos + 4, 8), 1),
                  expires |-> DecodeLE(Slice(bytes, pos + 12, 8), 1),
                  key_len |-> key_len,
                  value_len |-> value_len,
                  key |-> Slice(bytes, pos + HeaderLen, key_len),
                  value |-> Slice(bytes, pos + HeaderLen + key_len, value_len),
                  next |-> pos + HeaderLen + key_len + value_len]

\* the loop body that skips a DELETE record instead of applying it
ApplyRecord_skip_tombstone(k, r, t) ==
  IF r.value_len = 0
  THEN k
  ELSE IF r.expires = 0 \/ r.expires > t
  THEN casky_put_in_memory(k, CStr(r.key), CStr(r.value), r.timestamp, r.expires)
  ELSE k

\* the loop body that applies a PUT record whatever its expiration
ApplyRecord_ignore_expiry(k, r, t) ==
  IF r.value_len = 0
  THEN casky_delete_from_memory(k, CStr(r.key)).kd
  ELSE casky_put_in_memory(k, CStr(r.key), CStr(r.value), r.timestamp, r.expires)

\* what the loop body does with a record it has read
ApplyRecord(k, r, t) ==
  IF r.value_len = 0
  THEN casky_delete_from_memory(k, CStr(r.key)).kd
  ELSE IF r.expires = 0 \/ r.expires > t
  THEN casky_put_in_memory(k, CStr(r.key), CStr(r.value), r.timestamp, r.expires)
  ELSE k

RECURSIVE LoadLog(_, _, _, _)
LoadLog(k, bytes, pos, t) ==
  LET r == ReadRecord(bytes, pos)
  IN  IF ~r.ok THEN k
      ELSE LoadLog(ApplyRecord(k, r, t), bytes, r.next, t)

\* the complete records of the log, in order, as the reader parses them
RECURSIVE RecordsFrom(_, _)
RecordsFrom(bytes, pos) ==
  LET r == ReadRecord(bytes, pos)
  IN  IF ~r.ok THEN <<>> ELSE <<r>> \o RecordsFrom(bytes, r.next)

(***************************************************************************)
(* What casky_compact writes to the temporary file: one record per node,   *)
(* buckets in index order, each chain in link order.                       *)
(***************************************************************************)
RECURSIVE ChainRecords(_)
ChainRecords(chain) ==
  IF chain = <<>> THEN <<>>
  ELSE casky_write_data_to_file(<<>>, Head(chain).key, Head(chain).value,
                                Head(chain).timestamp, Head(chain).expiration_ts)
         \o ChainRecords(Tail(chain))

RECURSIVE BucketRecords(_, _)
BucketRecords(root, bs) ==
  IF bs = {} THEN <<>>
  ELSE LET b == CHOOSE c \in bs : \A d \in bs : c <= d
       IN  ChainRecords(root[b]) \o BucketRecords(root, bs \ {b})

CompactedLog(k) ==
  IF k.num_entries > 0 THEN BucketRecords(k.root, DOMAIN k.root) ELSE <<>>
(***************************************************************************)
(* The record of what the callers did, kept for the properties:            *)
(*   mut[k]   the latest put or delete call on k that reached the index:   *)
(*            its kind, whether it returned 0, the value and ttl put, the  *)
(*            expiration stored, and whether it was made on the engine     *)
(*            that is open now (cur);                                      *)
(*   snap[k]  what get(k) would have answered just before the last close,  *)
(*            kept until the next open;                                    *)
(*   io_ok    no put or delete has failed with an I/O error so far;        *)
(*   min_exp  the earliest non-zero expiration any put has stored, or 0;   *)
(*   tamper   the offset of the log byte altered behind the library's      *)
(*            back, 0 if none;                                             *)
(*   applied  the puts and deletes of the threads, in the order they       *)
(*            changed the index, and logged, in the order their records    *)
(*            were appended;                                               *)
(*   whole    the log as it was before its end was cut off, <<>> if it     *)
(*            never was;                                                   *)
(*   compacted  a casky_compact call has returned 0 on the engine opened   *)
(*            last, kept until the next open.                              *)
(***************************************************************************)
NoMut ==
  [kind |-> "none", ok |-> FALSE, value |-> NULL, ttl |-> 0, expires |-> 0, cur |-> FALSE]

NoSnap == [k \in Keys |-> NULL]

NoHist ==
  [mut |-> [k \in Keys |-> NoMut],
   snap |-> NoSnap,
   io_ok |-> TRUE,
   min_exp |-> 0,
   tamper |-> 0,
   applied |-> <<>>,
   logged |-> <<>>,
   whole |-> <<>>,
   compacted |-> FALSE]

(***************************************************************************)
(* The statistics of the process, casky_statistics, and the functions that *)
(* change it.  In the specifications that do not look at the statistics    *)
(* the counters are left out: casky_statistics is Uncounted there and      *)
(* Counted keeps it so.                                                    *)
(***************************************************************************)
Uncounted ==
  [total_keys |-> -1, memory_bytes |-> -1, num_puts |-> -1, num_gets |-> -1,
   num_deletes |-> -1]

Counted(s) == IF casky_statistics = Uncounted THEN Uncounted ELSE s

\* what casky_stats_init leaves, and what the static storage holds at start
casky_stats_init ==
  [total_keys |-> 0, memory_bytes |-> 0, num_puts |-> 0, num_gets |-> 0,
   num_deletes |-> 0]

casky_stats_inc_put(s, bytes) ==
  [s EXCEPT !.num_puts = @ + 1, !.memory_bytes = @ + bytes]

casky_stats_inc_delete(s, bytes) ==
  [s EXCEPT !.num_deletes = @ + 1,
            !.memory_bytes = IF bytes > 0 /\ @ >= bytes THEN @ - bytes ELSE @]

casky_stats_inc_entries(s) == [s EXCEPT !.total_keys = @ + 1]

casky_stats_dec_entries(s) ==
  [s EXCEPT !.total_keys = IF @ > 0 THEN @ - 1 ELSE @]

casky_stats_inc_get(s) == [s EXCEPT !.num_gets = @ + 1]

\* strlen(node->entry.key) + strlen(node->entry.value)
EntryBytes(e) == Len(e.key) + Len(e.value)

\* the statistics calls of casky_put_in_memory
PutStats(s, k, key, value) ==
  IF key = NULL \/ value = NULL THEN s
  ELSE IF FindNode(Chain(k, BucketIndex(k, key)), key, 1) > 0
  THEN casky_stats_inc_put(s, Len(key) + Len(value))
  ELSE casky_stats_inc_put(casky_stats_inc_entries(s), Len(key) + Len(value))

\* the statistics calls of casky_delete_from_memory
DeleteStats(s, k, key) ==
  LET chain == Chain(k, BucketIndex(k, key))
      i == FindNode(chain, key, 1)
  IN  IF i > 0
      THEN casky_stats_dec_entries(casky_stats_inc_delete(s, EntryBytes(chain[i])))
      ELSE s

\* the statistics calls of the walk of casky_get_from_memory: for an expired
\* node casky_stats_inc_delete, then those of casky_delete_from_memory
RECURSIVE GetWalkStats(_, _, _, _, _)
GetWalkStats(s, k, key, t, nodes) ==
  IF nodes = <<>> THEN s
  ELSE IF Head(nodes).key = key
  THEN IF IsExpired(Head(nodes), t)
       THEN GetWalkStats(
              DeleteStats(casky_stats_inc_delete(s, EntryBytes(Head(nodes))), k, key),
              casky_delete_from_memory(k, key).kd, key, t, Tail(nodes))
       ELSE casky_stats_inc_get(s)
  ELSE GetWalkStats(s, k, key, t, Tail(nodes))

GetStats(s, k, key, t) == GetWalkStats(s, k, key, t, Chain(k, BucketIndex(k, key)))

\* the statistics calls of casky_expire: casky_stats_inc_delete for each node
\* removed, buckets in index order, each chain in link order
RECURSIVE ExpireChainStats(_, _, _)
ExpireChainStats(s, chain, t) ==
  IF chain = <<>> THEN s
  ELSE IF IsExpired(Head(chain), t)
  THEN ExpireChainStats(casky_stats_inc_delete(s, EntryBytes(Head(chain))), Tail(chain), t)
  ELSE ExpireChainStats(s, Tail(chain), t)

RECURSIVE ExpireBucketsStats(_, _, _, _)
ExpireBucketsStats(s, root, bs, t) ==
  IF bs = {} THEN s
  ELSE LET b == CHOOSE c \in bs : \A d \in bs : c <= d
       IN  ExpireBucketsStats(ExpireChainStats(s, root[b], t), root, bs \ {b}, t)

ExpireStats(s, k, t) == ExpireBucketsStats(s, k.root, DOMAIN k.root, t)

\* the statistics calls of the replay loop of casky_init_kd_from_file
ApplyStats(s, k, r, t) ==
  IF r.value_len = 0
  THEN DeleteStats(s, k, CStr(r.key))
  ELSE IF r.expires = 0 \/ r.expires > t
  THEN PutStats(s, k, CStr(r.key), CStr(r.value))
  ELSE s

RECURSIVE LoadStats(_, _, _, _, _)
LoadStats(s, k, bytes, pos, t) ==
  LET r == ReadRecord(bytes, pos)
  IN  IF ~r.ok THEN s
      ELSE LoadStats(ApplyStats(s, k, r, t), ApplyRecord(k, r, t), bytes, r.next, t)

\* casky_open: casky_stats_init on the first call of the process
casky_open_stats_every_time(s, first) == casky_stats_init

casky_open_stats(s, first) == IF first THEN casky_stats_init ELSE s

Called(op, key, rc, val) == [op |-> op, key |-> key, rc |-> rc, val |-> val]

\* the value casky_get would return for the key at time t
Answer(k, key, t) == casky_get_from_memory(k, key, t).val

MinExp(m, expires) ==
  IF expires = 0 THEN m ELSE IF m = 0 \/ expires < m THEN expires ELSE m

Init ==
  /\ now = 1
  /\ db = "NULL"
  /\ kd = NoKeyDir
  /\ log_exists = FALSE
  /\ logfile = <<>>
  /\ tmpfiles = {}
  /\ casky_errno = CASKY_OK
  /\ last = Called("none", NULL, 0, NULL)
  /\ nrec = 0
  /\ nfault = 0
  /\ hist = NoHist
  /\ lock = 0
  /\ stats_lock = 0
  /\ pc = [t \in Threads |-> Idle]
  /\ ncall = 0
  /\ conn = "none"
  /\ reply = Reply("", NULL)
  /\ server = NoServer
  /\ casky_statistics = Uncounted
  /\ initialized = 0

(***************************************************************************)
(* time passes                                                             *)
(***************************************************************************)
Tick ==
  /\ now < MaxTime
  /\ now' = now + 1
  /\ UNCHANGED << db, kd, log_exists, logfile, tmpfiles, casky_errno, last, nrec, nfault, hist >>
  /\ UNCHANGED threads
  /\ UNCHANGED daemon
  /\ UNCHANGED stats

(***************************************************************************)
(* casky_open(path) on the log path, with no engine open in the process:   *)
(* casky_init_kd_from_file(path, 1).  A missing file is created empty,     *)
(* the records are replayed, and the file is opened for appending.         *)
(***************************************************************************)
casky_init_kd_from_file(bytes, t) ==
  LoadLog([NoKeyDir EXCEPT !.num_buckets = CASKY_INITIAL_BUCKETS_NUM,
                           !.sync_on_write = 1,
                           !.filename = LogPath],
          bytes, 1, t)

\* casky_open that opens the log with "wb+" and so empties it
Open_truncates_log ==
  /\ db = "NULL"
  /\ log_exists' = TRUE
  /\ kd' = [casky_init_kd_from_file(logfile, now) EXCEPT !.log = "open"]
  /\ db' = "open"
  /\ casky_errno' = CASKY_OK
  /\ last' = Called("open", NULL, 0, NULL)
  /\ hist' = [hist EXCEPT !.mut = [k \in Keys |-> [hist.mut[k] EXCEPT !.cur = FALSE]],
                          !.snap = NoSnap,
                          !.compacted = FALSE]
  /\ logfile' = <<>>
  /\ casky_statistics' = Counted(LoadStats(casky_open_stats(casky_statistics, initialized = 0),
                                            casky_init_kd_from_file(<<>>, now), logfile, 1, now))
  /\ initialized' = 1
  /\ UNCHANGED << now, tmpfiles, nrec, nfault >>
  /\ UNCHANGED threads
  /\ UNCHANGED daemon

\* casky_open that does not create the missing file
Open_no_create ==
  /\ db = "NULL"
  /\ log_exists' = log_exists
  /\ kd' = [casky_init_kd_from_file(logfile, now) EXCEPT !.log = "open"]
  /\ db' = "open"
  /\ casky_errno' = CASKY_OK
  /\ last' = Called("open", NULL, 0, NULL)
  /\ hist' = [hist EXCEPT !.mut = [k \in Keys |-> [hist.mut[k] EXCEPT !.cur = FALSE]],
                          !.snap = NoSnap,
                          !.compacted = FALSE]
  /\ casky_statistics' = Counted(LoadStats(casky_open_stats(casky_statistics, initialized = 0),
                                            casky_init_kd_from_file(<<>>, now), logfile, 1, now))
  /\ initialized' = 1
  /\ UNCHANGED << now, logfile, tmpfiles, nrec, nfault >>
  /\ UNCHANGED threads
  /\ UNCHANGED daemon

Open ==
  /\ db = "NULL"
  /\ log_exists' = TRUE
  /\ kd' = [casky_init_kd_from_file(logfile, now) EXCEPT !.log = "open"]
  /\ db' = "open"
  /\ casky_errno' = CASKY_OK
  /\ last' = Called("open", NULL, 0, NULL)
  /\ hist' = [hist EXCEPT !.mut = [k \in Keys |-> [hist.mut[k] EXCEPT !.cur = FALSE]],
                          !.snap = NoSnap,
                          !.compacted = FALSE]
  /\ casky_statistics' = Counted(LoadStats(casky_open_stats(casky_statistics, initialized = 0),
                                            casky_init_kd_from_file(<<>>, now), logfile, 1, now))
  /\ initialized' = 1
  /\ UNCHANGED << now, logfile, tmpfiles, nrec, nfault >>
  /\ UNCHANGED threads
  /\ UNCHANGED daemon

(***************************************************************************)
(* casky_close(kd): frees the chains, flushes and closes the log.          *)
(***************************************************************************)
Close ==
  /\ db = "open"
  /\ db' = "NULL"
  /\ kd' = NoKeyDir
  /\ casky_errno' = CASKY_OK
  /\ last' = Called("close", NULL, 0, NULL)
  /\ hist' = [hist EXCEPT !.snap = [k \in Keys |-> Answer(kd, k, now)]]
  /\ UNCHANGED << now, log_exists, logfile, tmpfiles, nrec, nfault >>
  /\ UNCHANGED threads
  /\ UNCHANGED daemon
  /\ UNCHANGED stats

(***************************************************************************)
(* casky_put(kd, key, value, ttl).  fault "append" is the record writer    *)
(* returning -1, fault "write" a failed write it does not notice.          *)
(***************************************************************************)
Put(key, value, ttl, fault) ==
  /\ db = "open"
  /\ nrec < MaxRecords
  /\ LET timestamp == now
         expires == IF ttl > 0 THEN now + ttl ELSE 0
     IN  /\ kd' = casky_put_in_memory(kd, key, value, timestamp, expires)
         /\ IF fault = "append"
            THEN /\ casky_errno' = CASKY_ERR_IO
                 /\ last' = Called("put", NULL, -1, NULL)
                 /\ nfault' = nfault + 1
                 /\ UNCHANGED << logfile, nrec >>
            ELSE IF fault = "write"
            THEN /\ \E n \in WriteCuts(RecordBytes(key, value, timestamp, expires)) :
                      logfile' = logfile \o SubSeq(RecordBytes(key, value, timestamp, expires), 1, n)
                 /\ casky_errno' = CASKY_OK
                 /\ last' = Called("put", NULL, 0, NULL)
                 /\ nfault' = nfault + 1
                 /\ UNCHANGED nrec
            ELSE /\ logfile' = casky_write_data_to_file(logfile, key, value, timestamp, expires)
                 /\ nrec' = nrec + 1
                 /\ casky_errno' = CASKY_OK
                 /\ last' = Called("put", NULL, 0, NULL)
                 /\ UNCHANGED nfault
         /\ hist' = [hist EXCEPT
               !.mut[key] = [kind |-> "put", ok |-> (fault # "append"),
                             value |-> value, ttl |-> ttl, expires |-> expires,
                             cur |-> TRUE],
               !.io_ok = hist.io_ok /\ fault = "none",
               !.min_exp = MinExp(hist.min_exp, expires)]
  /\ casky_statistics' = Counted(PutStats(casky_statistics, kd, key, value))
  /\ UNCHANGED << now, db, log_exists, tmpfiles, initialized >>
  /\ UNCHANGED threads
  /\ UNCHANGED daemon

(***************************************************************************)
(* casky_get(kd, key).  When the walk has read a node it had just freed,   *)
(* the call either goes on as if the node were intact or brings the        *)
(* process down ("crash"): the engine is gone, the log file stays.         *)
(***************************************************************************)
Get(key, outcome) ==
  /\ db = "open"
  /\ LET g == casky_get_from_memory(kd, key, now)
     IN  /\ outcome = "crash" => g.uaf
         /\ IF outcome = "crash"
            THEN \* the process is gone, and its statistics with it
                 /\ db' = "NULL"
                 /\ kd' = NoKeyDir
                 /\ last' = Called("get_crash", key, -1, NULL)
                 /\ casky_statistics' = Counted(casky_stats_init)
                 /\ initialized' = 0
                 /\ UNCHANGED casky_errno
            ELSE /\ kd' = g.kd
                 /\ casky_errno' = g.err
                 /\ last' = Called("get", key, 0, g.val)
                 /\ casky_statistics' = Counted(GetStats(casky_statistics, kd, key, now))
                 /\ UNCHANGED << db, initialized >>
  /\ UNCHANGED << now, log_exists, logfile, tmpfiles, nrec, nfault, hist >>
  /\ UNCHANGED threads
  /\ UNCHANGED daemon

(***************************************************************************)
(* casky_delete(kd, key)                                                   *)
(***************************************************************************)
Delete(key, fault) ==
  /\ db = "open"
  /\ LET d == casky_delete_from_memory(kd, key)
     IN  /\ d.found = 1 => nrec < MaxRecords
         /\ fault # "none" => d.found = 1
         /\ kd' = d.kd
         /\ IF d.found = 0
            THEN /\ casky_errno' = CASKY_ERR_KEY_NOT_FOUND
                 /\ last' = Called("delete", NULL, -1, NULL)
                 /\ UNCHANGED << logfile, nrec, nfault >>
            ELSE IF fault = "append"
            THEN /\ casky_errno' = CASKY_ERR_IO
                 /\ last' = Called("delete", NULL, -1, NULL)
                 /\ nfault' = nfault + 1
                 /\ UNCHANGED << logfile, nrec >>
            ELSE IF fault = "write"
            THEN /\ \E n \in WriteCuts(RecordBytes(key, NULL, now, 0)) :
                      logfile' = logfile \o SubSeq(RecordBytes(key, NULL, now, 0), 1, n)
                 /\ casky_errno' = CASKY_OK
                 /\ last' = Called("delete", NULL, 0, NULL)
                 /\ nfault' = nfault + 1
                 /\ UNCHANGED nrec
            ELSE /\ logfile' = casky_write_data_to_file(logfile, key, NULL, now, 0)
                 /\ nrec' = nrec + 1
                 /\ casky_errno' = CASKY_OK
                 /\ last' = Called("delete", NULL, 0, NULL)
                 /\ UNCHANGED nfault
         /\ hist' = [hist EXCEPT
               !.mut[key] = IF d.found = 0 THEN @
                            ELSE [kind |-> "delete", ok |-> (fault # "append"),
                                  value |-> NULL, ttl |-> 0, expires |-> 0, cur |-> TRUE],
               !.io_ok = hist.io_ok /\ (d.found = 0 \/ fault = "none")]
  /\ casky_statistics' = Counted(DeleteStats(casky_statistics, kd, key))
  /\ UNCHANGED << now, db, log_exists, tmpfiles, initialized >>
  /\ UNCHANGED threads
  /\ UNCHANGED daemon

(***************************************************************************)
(* casky_compact(kd).  fault names the step that fails, if any: mkstemp,   *)
(* fdopen, one of the record writes, or rename.                            *)
(***************************************************************************)
Compact(fault) ==
  /\ db = "open"
  /\ fault = "write" => CompactedLog(kd) # <<>>
  /\ IF fault = "none"
     THEN /\ logfile' = CompactedLog(kd)
          /\ kd' = [kd EXCEPT !.log = "open"]
          /\ casky_errno' = CASKY_OK
          /\ last' = Called("compact", NULL, 0, NULL)
          /\ hist' = [hist EXCEPT !.compacted = TRUE]
          /\ UNCHANGED << tmpfiles, nfault >>
     ELSE \* mkstemp: nothing was created.  fdopen: close(fd) and return, the
          \* file mkstemp created stays.  write, rename: remove(tmpfile_template).
          /\ tmpfiles' = IF fault = "fdopen" THEN tmpfiles \cup { <<>> } ELSE tmpfiles
          /\ casky_errno' = CASKY_ERR_IO
          /\ last' = Called("compact", NULL, -1, NULL)
          /\ nfault' = nfault + 1
          /\ UNCHANGED << kd, logfile, hist >>
  /\ UNCHANGED << now, db, log_exists, nrec >>
  /\ UNCHANGED threads
  /\ UNCHANGED daemon
  /\ UNCHANGED stats

(***************************************************************************)
(* casky_expire(kd)                                                        *)
(***************************************************************************)
Expire ==
  /\ db = "open"
  /\ kd' = ExpireSweep(kd, now)
  /\ last' = Called("expire", NULL, 0, NULL)
  /\ casky_statistics' = Counted(ExpireStats(casky_statistics, kd, now))
  /\ UNCHANGED << now, db, log_exists, logfile, tmpfiles, casky_errno, nrec, nfault, hist,
                  initialized >>
  /\ UNCHANGED threads
  /\ UNCHANGED daemon

(***************************************************************************)
(* A byte of the closed log is overwritten behind the library's back, as   *)
(* test_log_integrity does with fputc('X', f).                             *)
(***************************************************************************)
GarbageByte == 88

Corrupt(offset) ==
  /\ db = "NULL"
  /\ log_exists
  /\ hist.tamper = 0
  /\ offset \in 1..Len(logfile)
  /\ logfile[offset] # GarbageByte
  /\ logfile' = [logfile EXCEPT ![offset] = GarbageByte]
  /\ hist' = [hist EXCEPT !.tamper = offset]
  /\ UNCHANGED << now, db, kd, log_exists, tmpfiles, casky_errno, last, nrec, nfault >>
  /\ UNCHANGED threads
  /\ UNCHANGED daemon
  /\ UNCHANGED stats

(***************************************************************************)
(* The closed log loses its end: the last record written is cut short, as  *)
(* when the writing process stops between the fwrite calls of the record   *)
(* or the write fails part way.                                            *)
(***************************************************************************)
\* where the last complete record of the log starts
LastStart(bytes) ==
  LET rs == RecordsFrom(bytes, 1)
  IN  IF Len(rs) <= 1 THEN 1 ELSE rs[Len(rs) - 1].next

\* the bytes that stay when the last record is cut inside the given part:
\* after 12 bytes of the header, before the first byte of the key, or before
\* the first byte of the value
CutAt(bytes, part) ==
  LET rs == RecordsFrom(bytes, 1)
      r == rs[Len(rs)]
      start == LastStart(bytes)
  IN  IF part = "header" THEN start + 11
      ELSE IF part = "key" THEN start + HeaderLen - 1
      ELSE start + HeaderLen + r.key_len - 1

Truncate(part) ==
  /\ db = "NULL"
  /\ log_exists
  /\ hist.whole = <<>>
  /\ RecordsFrom(logfile, 1) # <<>>
  /\ CutAt(logfile, part) < Len(logfile)
  /\ logfile' = SubSeq(logfile, 1, CutAt(logfile, part))
  /\ hist' = [hist EXCEPT !.whole = logfile]
  /\ UNCHANGED << now, db, kd, log_exists, tmpfiles, casky_errno, last, nrec, nfault >>
  /\ UNCHANGED threads
  /\ UNCHANGED daemon
  /\ UNCHANGED stats

(***************************************************************************)
(* Every call succeeding in its I/O.                                       *)
(***************************************************************************)
Next ==
  \/ Tick
  \/ Open
  \/ Close
  \/ \E key \in Keys, value \in Values, ttl \in TTLs : Put(key, value, ttl, "none")
  \/ \E key \in Keys, outcome \in {"return", "crash"} : Get(key, outcome)
  \/ \E key \in Keys : Delete(key, "none")
  \/ Compact("none")
  \/ Expire

Spec == Init /\ [][Next]_vars

(***************************************************************************)
(* The same calls where the I/O of put, delete and compact may fail, over  *)
(* at most MaxFaultCalls records and failures.                             *)
(***************************************************************************)
FaultBudget == nrec + nfault < MaxFaultCalls

NextFault ==
  \/ Tick
  \/ Open
  \/ Close
  \/ \E key \in Keys, value \in Values, ttl \in TTLs, fault \in {"none", "append", "write"} :
       FaultBudget /\ Put(key, value, ttl, fault)
  \/ \E key \in Keys, outcome \in {"return", "crash"} : Get(key, outcome)
  \/ \E key \in Keys, fault \in {"none", "append", "write"} :
       FaultBudget /\ Delete(key, fault)
  \/ \E fault \in {"none", "mkstemp", "fdopen", "write", "rename"} :
       (fault # "none" => FaultBudget) /\ Compact(fault)
  \/ Expire

SpecFault == Init /\ [][NextFault]_vars

(***************************************************************************)
(* Logs of at most MaxTamperRecords records, one byte of which may be      *)
(* overwritten while the log is closed.                                    *)
(***************************************************************************)
NextTamper ==
  \/ Open
  \/ Close
  \/ \E key \in Keys, value \in Values, ttl \in TTLs :
       nrec < MaxTamperRecords /\ Put(key, value, ttl, "none")
  \/ \E key \in Keys : Get(key, "return")
  \/ \E offset \in 1..(MaxTamperRecords * (HeaderLen + 3)) : Corrupt(offset)

SpecTamper == Init /\ [][NextTamper]_vars

(***************************************************************************)
(* casky_open(path) with a path that names no log: NULL gives              *)
(* CASKY_ERR_INVALID_PATH at once; for the empty string fopen(file, "rb")  *)
(* and then fopen(file, "wb") both fail (no file has the empty name), and  *)
(* the function returns NULL with CASKY_ERR_IO.  No engine is made.        *)
(***************************************************************************)
BadPaths == { NULL, <<>> }

OpenInvalid(path) ==
  /\ path \in BadPaths
  /\ casky_errno' = IF path = NULL THEN CASKY_ERR_INVALID_PATH ELSE CASKY_ERR_IO
  /\ last' = Called("open", NULL, -1, NULL)
  /\ casky_statistics' = Counted(casky_open_stats(casky_statistics, initialized = 0))
  /\ initialized' = 1
  /\ UNCHANGED << now, db, kd, log_exists, logfile, tmpfiles, nrec, nfault, hist >>
  /\ UNCHANGED threads
  /\ UNCHANGED daemon

(***************************************************************************)
(* Recovery: logs of at most MaxTamperRecords records written by put and   *)
(* delete, closed, possibly cut short, and opened again while time passes. *)
(***************************************************************************)
NextRecover ==
  \/ Tick
  \/ Open
  \/ Close
  \/ \E path \in BadPaths : OpenInvalid(path)
  \/ \E key \in Keys, value \in Values, ttl \in TTLs :
       nrec < MaxTamperRecords /\ Put(key, value, ttl, "none")
  \/ \E key \in Keys : nrec < MaxTamperRecords /\ Delete(key, "none")
  \/ \E key \in Keys : Get(key, "return")
  \/ \E part \in {"header", "key", "value"} : Truncate(part)

SpecRecover == Init /\ [][NextRecover]_vars

(***************************************************************************)
(* The statistics: one process that opens, uses and closes the engine      *)
(* while the counters are kept, until MaxStatCalls puts, gets and deletes  *)
(* have been counted.                                                      *)
(***************************************************************************)
MaxStatCalls == 3

InitStats ==
  /\ now = 1
  /\ db = "NULL"
  /\ kd = NoKeyDir
  /\ log_exists = FALSE
  /\ logfile = <<>>
  /\ tmpfiles = {}
  /\ casky_errno = CASKY_OK
  /\ last = Called("none", NULL, 0, NULL)
  /\ nrec = 0
  /\ nfault = 0
  /\ hist = NoHist
  /\ lock = 0
  /\ stats_lock = 0
  /\ pc = [t \in Threads |-> Idle]
  /\ ncall = 0
  /\ conn = "none"
  /\ reply = Reply("", NULL)
  /\ server = NoServer
  /\ casky_statistics = casky_stats_init
  /\ initialized = 0

StatBudget ==
  casky_statistics.num_puts + casky_statistics.num_gets + casky_statistics.num_deletes
    < MaxStatCalls

NextStats ==
  \/ Tick
  \/ StatBudget /\ Open
  \/ Close
  \/ \E path \in BadPaths : StatBudget /\ OpenInvalid(path)
  \/ \E key \in Keys, value \in Values, ttl \in TTLs : StatBudget /\ Put(key, value, ttl, "none")
  \/ \E key \in Keys, outcome \in {"return", "crash"} : StatBudget /\ Get(key, outcome)
  \/ \E key \in Keys : StatBudget /\ Delete(key, "none")
  \/ StatBudget /\ Expire

SpecStats == InitStats /\ [][NextStats]_vars

(***************************************************************************)
(* The build with -DTHREAD_SAFE: threads calling into one open engine.     *)
(* LOCK and UNLOCK are pthread_mutex_lock and pthread_mutex_unlock on      *)
(* kd->lock, a default mutex: a thread that finds it taken waits, also     *)
(* when it is itself the holder.                                           *)
(***************************************************************************)
LOCK_no_wait(t) == lock' = t

LOCK(t) == lock = 0 /\ lock' = t

UNLOCK(t) == lock' = 0

\* LOCK_STATS and UNLOCK_STATS of the statistics functions
LOCK_STATS(t) == stats_lock = 0 /\ stats_lock' = t

UNLOCK_STATS(t) == stats_lock' = IF stats_lock = t THEN 0 ELSE stats_lock

\* the checks each API function makes before LOCK: the error code, or CASKY_OK
ArgCheck_key_first(op, engine, key, value) ==
  IF op \in {"put", "get", "delete"} /\ key = NULL THEN CASKY_ERR_INVALID_KEY
  ELSE IF op = "put" /\ value = NULL THEN CASKY_ERR_INVALID_KEY
  ELSE IF engine = "NULL" THEN CASKY_ERR_INVALID_POINTER
  ELSE IF op = "compact" /\ kd.filename = "" THEN CASKY_ERR_INVALID_POINTER
  ELSE CASKY_OK

ArgCheck(op, engine, key, value) ==
  IF engine = "NULL" THEN CASKY_ERR_INVALID_POINTER
  ELSE IF op = "compact" /\ kd.filename = "" THEN CASKY_ERR_INVALID_POINTER
  ELSE IF op \in {"put", "get", "delete"} /\ key = NULL THEN CASKY_ERR_INVALID_KEY
  ELSE IF op = "put" /\ value = NULL THEN CASKY_ERR_INVALID_KEY
  ELSE CASKY_OK

\* what a failing call returns: -1, NULL for casky_get, nothing for casky_expire
Sentinel(op) == IF op = "expire" THEN 0 ELSE -1

\* the engine is open and shared by the threads: the state after casky_open
InitThreads ==
  /\ now = 1
  /\ db = "open"
  /\ kd = [casky_init_kd_from_file(<<>>, 1) EXCEPT !.log = "open"]
  /\ log_exists = TRUE
  /\ logfile = <<>>
  /\ tmpfiles = {}
  /\ casky_errno = CASKY_OK
  /\ last = Called("open", NULL, 0, NULL)
  /\ nrec = 0
  /\ nfault = 0
  /\ hist = NoHist
  /\ lock = 0
  /\ stats_lock = 0
  /\ pc = [t \in Threads |-> Idle]
  /\ ncall = 0
  /\ conn = "none"
  /\ reply = Reply("", NULL)
  /\ server = NoServer
  /\ casky_statistics = Uncounted
  /\ initialized = 1

\* the call is entered: a rejected one returns at once, another one goes to LOCK
ThreadCall(t, op, engine, key, value) ==
  /\ pc[t].at = "idle"
  /\ LET err == ArgCheck(op, engine, key, value)
     IN  IF err # CASKY_OK
         THEN /\ casky_errno' = err
              /\ last' = Called(op, NULL, Sentinel(op), NULL)
              /\ UNCHANGED << pc, ncall >>
         ELSE /\ op \in {"put", "delete"} => ncall < MaxThreadCalls
              /\ ncall' = IF op \in {"put", "delete"} THEN ncall + 1 ELSE ncall
              /\ pc' = [pc EXCEPT ![t] = [Idle EXCEPT !.at = "lock", !.op = op,
                                                       !.key = key, !.value = value]]
              /\ UNCHANGED << casky_errno, last >>
  /\ UNCHANGED << now, db, kd, log_exists, logfile, tmpfiles, nrec, nfault, hist,
                  lock, stats_lock >>
  /\ UNCHANGED daemon
  /\ UNCHANGED stats

\* the call will enter a statistics function: casky_stats_inc_put, _get, _delete
TouchesStats(op, key) ==
  \/ op = "put"
  \/ op \in {"get", "delete"} /\ FindNode(Chain(kd, BucketIndex(kd, key)), key, 1) > 0

\* LOCK(kd) returns
ThreadLock_compact_unlocked(t) ==
  /\ pc[t].at = "lock"
  /\ IF pc[t].op = "compact" THEN UNCHANGED lock ELSE LOCK(t)
  /\ pc' = [pc EXCEPT ![t].at = IF TouchesStats(pc[t].op, pc[t].key) THEN "stats" ELSE "body"]
  /\ UNCHANGED << now, db, kd, log_exists, logfile, tmpfiles, casky_errno, last, nrec,
                  nfault, hist, stats_lock, ncall >>
  /\ UNCHANGED daemon
  /\ UNCHANGED stats

ThreadLock(t) ==
  /\ pc[t].at = "lock"
  /\ LOCK(t)
  /\ pc' = [pc EXCEPT ![t].at = IF TouchesStats(pc[t].op, pc[t].key) THEN "stats" ELSE "body"]
  /\ UNCHANGED << now, db, kd, log_exists, logfile, tmpfiles, casky_errno, last, nrec,
                  nfault, hist, stats_lock, ncall >>
  /\ UNCHANGED daemon
  /\ UNCHANGED stats

\* LOCK_STATS returns, inside the in-memory step of put, get and delete
ThreadStats(t) ==
  /\ pc[t].at = "stats"
  /\ LOCK_STATS(t)
  /\ pc' = [pc EXCEPT ![t].at = "body"]
  /\ UNCHANGED << now, db, kd, log_exists, logfile, tmpfiles, casky_errno, last, nrec,
                  nfault, hist, lock, ncall >>
  /\ UNCHANGED daemon
  /\ UNCHANGED stats

\* the in-memory step of the call; compaction writes its temporary file
ThreadBody(t) ==
  /\ pc[t].at = "body"
  /\ UNLOCK_STATS(t)
  /\ LET op == pc[t].op
         key == pc[t].key
         g == casky_get_from_memory(kd, key, now)
         d == casky_delete_from_memory(kd, key)
     IN  IF op = "put"
         THEN /\ kd' = casky_put_in_memory(kd, key, pc[t].value, now, 0)
              /\ hist' = [hist EXCEPT !.applied = Append(@, << t, key, pc[t].value >>)]
              /\ pc' = [pc EXCEPT ![t].at = "log"]
              /\ UNCHANGED << tmpfiles, casky_errno, last >>
         ELSE IF op = "get"
         THEN /\ kd' = g.kd
              /\ casky_errno' = g.err
              /\ pc' = [pc EXCEPT ![t].at = "unlock", ![t].value = g.val]
              /\ UNCHANGED << tmpfiles, last, hist >>
         ELSE IF op = "delete"
         THEN IF d.found = 0
              THEN \* return -1 with the mutex still held
                   /\ casky_errno' = CASKY_ERR_KEY_NOT_FOUND
                   /\ last' = Called("delete", NULL, -1, NULL)
                   /\ pc' = [pc EXCEPT ![t] = Idle]
                   /\ UNCHANGED << kd, tmpfiles, hist >>
              ELSE /\ kd' = d.kd
                   /\ hist' = [hist EXCEPT !.applied = Append(@, << t, key, NULL >>)]
                   /\ pc' = [pc EXCEPT ![t].at = "log"]
                   /\ UNCHANGED << tmpfiles, casky_errno, last >>
         ELSE IF op = "compact"
         THEN /\ tmpfiles' = tmpfiles \cup { CompactedLog(kd) }
              /\ pc' = [pc EXCEPT ![t].at = "rename", ![t].tmp = CompactedLog(kd)]
              /\ UNCHANGED << kd, casky_errno, last, hist >>
         ELSE /\ kd' = ExpireSweep(kd, now)
              /\ pc' = [pc EXCEPT ![t].at = "unlock"]
              /\ UNCHANGED << tmpfiles, casky_errno, last, hist >>
  /\ casky_statistics' = Counted(
        IF pc[t].op = "put"
        THEN PutStats(casky_statistics, kd, pc[t].key, pc[t].value)
        ELSE IF pc[t].op = "get" THEN GetStats(casky_statistics, kd, pc[t].key, now)
        ELSE IF pc[t].op = "delete" THEN DeleteStats(casky_statistics, kd, pc[t].key)
        ELSE IF pc[t].op = "expire" THEN ExpireStats(casky_statistics, kd, now)
        ELSE casky_statistics)
  /\ UNCHANGED << now, db, log_exists, logfile, nrec, nfault, lock, ncall, initialized >>
  /\ UNCHANGED daemon

\* casky_write_data_to_file appends the record of the put or the tombstone
ThreadLog(t) ==
  /\ pc[t].at = "log"
  /\ logfile' = casky_write_data_to_file(logfile, pc[t].key,
                   IF pc[t].op = "put" THEN pc[t].value ELSE NULL, now, 0)
  /\ nrec' = nrec + 1
  /\ hist' = [hist EXCEPT !.logged = Append(@, << t, pc[t].key,
                             IF pc[t].op = "put" THEN pc[t].value ELSE NULL >>)]
  /\ pc' = [pc EXCEPT ![t].at = "unlock"]
  /\ UNCHANGED << now, db, kd, log_exists, tmpfiles, casky_errno, last, nfault,
                  lock, stats_lock, ncall >>
  /\ UNCHANGED daemon
  /\ UNCHANGED stats

\* rename(tmpfile_template, kd->filename) and the reopening of kd->log
ThreadRename(t) ==
  /\ pc[t].at = "rename"
  /\ logfile' = pc[t].tmp
  /\ tmpfiles' = tmpfiles \ { pc[t].tmp }
  /\ kd' = [kd EXCEPT !.log = "open"]
  /\ pc' = [pc EXCEPT ![t].at = "unlock"]
  /\ UNCHANGED << now, db, log_exists, casky_errno, last, nrec, nfault, hist,
                  lock, stats_lock, ncall >>
  /\ UNCHANGED daemon
  /\ UNCHANGED stats

\* UNLOCK(kd) and the return of the call
ThreadUnlock(t) ==
  /\ pc[t].at = "unlock"
  /\ UNLOCK(t)
  /\ casky_errno' = IF pc[t].op \in {"put", "delete", "compact"} THEN CASKY_OK
                    ELSE casky_errno
  /\ last' = IF pc[t].op = "get" THEN Called("get", pc[t].key, 0, pc[t].value)
             ELSE Called(pc[t].op, NULL, 0, NULL)
  /\ pc' = [pc EXCEPT ![t] = Idle]
  /\ UNCHANGED << now, db, kd, log_exists, logfile, tmpfiles, nrec, nfault, hist,
                  stats_lock, ncall >>
  /\ UNCHANGED daemon
  /\ UNCHANGED stats

\* the keys the threads use: "b" and "zx", which share a bucket
ThreadKeys == { <<98>>, <<122, 120>> }

NextThreads ==
  \/ \E t \in Threads, engine \in {"NULL", "open"},
        key \in ThreadKeys \cup {NULL}, value \in Values \cup {NULL} :
       ThreadCall(t, "put", engine, key, value)
  \/ \E t \in Threads, op \in {"get", "delete"}, engine \in {"NULL", "open"},
        key \in ThreadKeys \cup {NULL} :
       ThreadCall(t, op, engine, key, NULL)
  \/ \E t \in Threads, op \in {"compact", "expire"}, engine \in {"NULL", "open"} :
       ThreadCall(t, op, engine, NULL, NULL)
  \/ \E t \in Threads : ThreadLock(t)
  \/ \E t \in Threads : ThreadStats(t)
  \/ \E t \in Threads : ThreadBody(t)
  \/ \E t \in Threads : ThreadLog(t)
  \/ \E t \in Threads : ThreadRename(t)
  \/ \E t \in Threads : ThreadUnlock(t)

SpecThreads == InitThreads /\ [][NextThreads]_vars

(***************************************************************************)
(* caskyd: handle_client on one connection, in the build without           *)
(* THREAD_SAFE.  A line is the bytes fgets returns; trim_newline, sscanf   *)
(* with "%15s %255s %2047[^\n]" and strcasecmp are computed on them.       *)
(***************************************************************************)
Lines ==
  { <<80, 85, 84, 32, 98, 32, 49, 10>>,                      \* PUT b 1\n
    <<112, 117, 116, 32, 122, 120, 32, 49, 10>>,             \* put zx 1\n
    <<80, 85, 84, 32, 98, 10>>,                              \* PUT b\n
    <<71, 69, 84, 32, 98, 10>>,                              \* GET b\n
    <<103, 101, 116, 32, 122, 120, 13, 10>>,                 \* get zx\r\n
    <<71, 69, 84, 10>>,                                      \* GET\n
    <<68, 69, 76, 32, 98, 10>>,                              \* DEL b\n
    <<68, 69, 76, 32, 122, 120, 10>>,                        \* DEL zx\n
    <<68, 69, 76, 10>>,                                      \* DEL\n
    <<70, 79, 79, 32, 98, 10>>,                              \* FOO b\n
    <<81, 85, 73, 84, 10>>,                                  \* QUIT\n
    <<10>>,                                                  \* \n
    <<86, 69, 82, 10>>,                                      \* VER\n
    <<67, 79, 77, 80, 65, 67, 84, 10>>,                      \* COMPACT\n
    <<83, 84, 65, 84, 83, 10>> }                             \* STATS\n

RECURSIVE trim_newline(_)
trim_newline(s) ==
  IF s # <<>> /\ s[Len(s)] \in {10, 13} THEN trim_newline(SubSeq(s, 1, Len(s) - 1)) ELSE s

\* isspace
IsSpace(c) == c \in {32, 9, 10, 11, 12, 13}

\* the first position from i on that holds no white space
RECURSIVE SkipSpace(_, _)
SkipSpace(s, i) ==
  IF i <= Len(s) /\ IsSpace(s[i]) THEN SkipSpace(s, i + 1) ELSE i

\* the position after the run, of at most width bytes none of which is in
\* stop, that starts at i
RECURSIVE RunEnd(_, _, _, _)
RunEnd(s, i, stop, width) ==
  IF i <= Len(s) /\ width > 0 /\ s[i] \notin stop
  THEN RunEnd(s, i + 1, stop, width - 1)
  ELSE i

\* sscanf(line, "%15s %255s %2047[^\n]", cmd, key, value): the count it
\* returns (-1 for EOF) and the buffers, which memset had zeroed
sscanf(line) ==
  LET space == {32, 9, 10, 11, 12, 13}
      c1 == SkipSpace(line, 1)
      c2 == RunEnd(line, c1, space, 15)
      k1 == SkipSpace(line, c2)
      k2 == RunEnd(line, k1, space, 255)
      v1 == SkipSpace(line, k2)
      v2 == RunEnd(line, v1, {10}, 2047)
      cmd == SubSeq(line, c1, c2 - 1)
      key == SubSeq(line, k1, k2 - 1)
      value == SubSeq(line, v1, v2 - 1)
  IN  IF c1 > Len(line) THEN [n |-> -1, cmd |-> <<>>, key |-> <<>>, value |-> <<>>]
      ELSE IF k1 > Len(line) THEN [n |-> 1, cmd |-> cmd, key |-> <<>>, value |-> <<>>]
      ELSE IF v1 > Len(line) \/ v2 = v1 THEN [n |-> 2, cmd |-> cmd, key |-> key, value |-> <<>>]
      ELSE [n |-> 3, cmd |-> cmd, key |-> key, value |-> value]

toupper(c) == IF c >= 97 /\ c <= 122 THEN c - 32 ELSE c

\* strcasecmp(a, b) == 0
strcasecmp(a, b) ==
  IF Len(a) = Len(b) /\ \A i \in 1..Len(a) : toupper(a[i]) = toupper(b[i]) THEN 0 ELSE 1

\* the lines of the model trimmed and scanned, tabulated once
ScannedLines == [line \in Lines |-> sscanf(trim_newline(line))]

\* main has opened the engine and accepted the client; the banner was sent
InitDaemon ==
  /\ now = 1
  /\ db = "open"
  /\ kd = [casky_init_kd_from_file(<<>>, 1) EXCEPT !.log = "open"]
  /\ log_exists = TRUE
  /\ logfile = <<>>
  /\ tmpfiles = {}
  /\ casky_errno = CASKY_OK
  /\ last = Called("open", NULL, 0, NULL)
  /\ nrec = 0
  /\ nfault = 0
  /\ hist = NoHist
  /\ lock = 0
  /\ stats_lock = 0
  /\ pc = [t \in Threads |-> Idle]
  /\ ncall = 0
  /\ conn = "open"
  /\ reply = Reply("CASKY READY", NULL)
  /\ server = [Listening EXCEPT !.client[1] = "active", !.active_clients = 1]
  /\ casky_statistics = Uncounted
  /\ initialized = 1

(***************************************************************************)
(* One turn of the loop of handle_client on the line read.  The call       *)
(* casky_put(db, key, value) passes no ttl: arg4 is the value the          *)
(* function finds where its fourth argument would be.  outcome is as for   *)
(* Get: a get that has read a freed node may bring the process down.       *)
(***************************************************************************)
Line(line, arg4, outcome) ==
  /\ conn = "open"
  /\ db = "open"
  /\ LET s == trim_newline(line)
         sc == IF line \in DOMAIN ScannedLines THEN ScannedLines[line] ELSE sscanf(s)
         key == sc.key
         expires == IF arg4 > 0 THEN now + arg4 ELSE 0
         g == casky_get_from_memory(kd, key, now)
         d == casky_delete_from_memory(kd, key)
         Same == UNCHANGED << db, kd, logfile, casky_errno, last, nrec, hist, conn >>
     IN  /\ outcome = "crash" => (s # <<>> /\ sc.n >= 2 /\ strcasecmp(sc.cmd, <<71, 69, 84>>) = 0 /\ g.uaf)
         /\ IF s = <<>> \/ sc.n <= 0
            THEN reply' = Reply("ERROR invalid command", NULL) /\ Same
            ELSE IF strcasecmp(sc.cmd, <<86, 69, 82>>) = 0
            THEN reply' = Reply("VERSION", NULL) /\ Same
            ELSE IF strcasecmp(sc.cmd, <<81, 85, 73, 84>>) = 0
            THEN /\ reply' = Reply("BYE", NULL)
                 /\ conn' = "closed"
                 /\ UNCHANGED << db, kd, logfile, casky_errno, last, nrec, hist >>
            ELSE IF strcasecmp(sc.cmd, <<80, 85, 84>>) = 0
            THEN IF sc.n < 3
                 THEN reply' = Reply("ERROR usage: PUT <key> <value>", NULL) /\ Same
                 ELSE /\ nrec < MaxRecords
                      /\ kd' = casky_put_in_memory(kd, key, sc.value, now, expires)
                      /\ logfile' = casky_write_data_to_file(logfile, key, sc.value, now, expires)
                      /\ nrec' = nrec + 1
                      /\ casky_errno' = CASKY_OK
                      /\ last' = Called("put", NULL, 0, NULL)
                      /\ hist' = [hist EXCEPT
                            !.mut[key] = [kind |-> "put", ok |-> TRUE, value |-> sc.value,
                                          ttl |-> arg4, expires |-> expires, cur |-> TRUE],
                            !.min_exp = MinExp(hist.min_exp, expires)]
                      /\ reply' = Reply("OK", NULL)
                      /\ UNCHANGED << db, conn >>
            ELSE IF strcasecmp(sc.cmd, <<71, 69, 84>>) = 0
            THEN IF sc.n < 2
                 THEN reply' = Reply("ERROR usage: GET <key>", NULL) /\ Same
                 ELSE IF outcome = "crash"
                 THEN /\ db' = "NULL"
                      /\ kd' = NoKeyDir
                      /\ conn' = "closed"
                      /\ last' = Called("get_crash", key, -1, NULL)
                      /\ UNCHANGED << logfile, casky_errno, nrec, hist, reply >>
                 ELSE /\ kd' = g.kd
                      /\ casky_errno' = g.err
                      /\ last' = Called("get", key, 0, g.val)
                      /\ reply' = IF g.val # NULL THEN Reply("VALUE", g.val)
                                  ELSE Reply("NOT_FOUND", NULL)
                      /\ UNCHANGED << db, logfile, nrec, hist, conn >>
            ELSE IF strcasecmp(sc.cmd, <<68, 69, 76>>) = 0
            THEN IF sc.n < 2
                 THEN reply' = Reply("ERROR usage: DEL <key>", NULL) /\ Same
                 ELSE /\ d.found = 1 => nrec < MaxRecords
                      /\ kd' = d.kd
                      /\ IF d.found = 0
                         THEN /\ casky_errno' = CASKY_ERR_KEY_NOT_FOUND
                              /\ last' = Called("delete", NULL, -1, NULL)
                              /\ reply' = Reply("NOT_FOUND", NULL)
                              /\ UNCHANGED << logfile, nrec, hist >>
                         ELSE /\ logfile' = casky_write_data_to_file(logfile, key, NULL, now, 0)
                              /\ nrec' = nrec + 1
                              /\ casky_errno' = CASKY_OK
                              /\ last' = Called("delete", NULL, 0, NULL)
                              /\ hist' = [hist EXCEPT
                                    !.mut[key] = [kind |-> "delete", ok |-> TRUE, value |-> NULL,
                                                  ttl |-> 0, expires |-> 0, cur |-> TRUE]]
                              /\ reply' = Reply("OK", NULL)
                      /\ UNCHANGED << db, conn >>
            ELSE IF strcasecmp(sc.cmd, <<67, 79, 77, 80, 65, 67, 84>>) = 0
            THEN reply' = Reply("ERROR not supported (compile-with -DTHREAD_SAFE to allow COMPACT)", NULL)
                 /\ Same
            ELSE IF strcasecmp(sc.cmd, <<83, 84, 65, 84, 83>>) = 0
            THEN reply' = Reply("STATS", NULL) /\ Same
            ELSE reply' = Reply("ERROR unknown command", NULL) /\ Same
         /\ casky_statistics' = Counted(
               IF s = <<>> \/ sc.n <= 0 THEN casky_statistics
               ELSE IF strcasecmp(sc.cmd, <<80, 85, 84>>) = 0 /\ sc.n >= 3
               THEN PutStats(casky_statistics, kd, key, sc.value)
               ELSE IF strcasecmp(sc.cmd, <<71, 69, 84>>) = 0 /\ sc.n >= 2
               THEN IF outcome = "crash" THEN casky_stats_init
                    ELSE GetStats(casky_statistics, kd, key, now)
               ELSE IF strcasecmp(sc.cmd, <<68, 69, 76>>) = 0 /\ sc.n >= 2
               THEN DeleteStats(casky_statistics, kd, key)
               ELSE casky_statistics)
         /\ initialized' = IF outcome = "crash" THEN 0 ELSE initialized
  /\ UNCHANGED << now, log_exists, tmpfiles, nfault, server >>
  /\ UNCHANGED threads

NextDaemon ==
  \/ Tick
  \/ \E line \in Lines, arg4 \in TTLs, outcome \in {"return", "crash"} : Line(line, arg4, outcome)

SpecDaemon == InitDaemon /\ [][NextDaemon]_vars

(***************************************************************************)
(* The life of caskyd: main accepts connections and starts a detached      *)
(* handler thread for each; a handler counts itself in active_clients,     *)
(* serves lines and counts itself out; a termination signal makes main     *)
(* leave the accept loop, wait for active_clients to reach 0, but for      *)
(* ShutdownTurns turns of 100 ms at most, close the engine and return.     *)
(***************************************************************************)
\* SHUTDOWN_WAIT_SEC * 10 turns in the source, fewer here
ShutdownTurns == 2

\* the lines the handlers of this specification serve
ShutdownLines ==
  { <<80, 85, 84, 32, 98, 32, 49, 10>>,                      \* PUT b 1\n
    <<71, 69, 84, 32, 98, 10>> }                             \* GET b\n

Elsewhere == << now, db, kd, log_exists, logfile, tmpfiles, casky_errno, last, nrec, nfault,
                hist, conn, reply >>

InitShutdown ==
  /\ now = 1
  /\ db = "open"
  /\ kd = [casky_init_kd_from_file(<<>>, 1) EXCEPT !.log = "open"]
  /\ log_exists = TRUE
  /\ logfile = <<>>
  /\ tmpfiles = {}
  /\ casky_errno = CASKY_OK
  /\ last = Called("open", NULL, 0, NULL)
  /\ nrec = 0
  /\ nfault = 0
  /\ hist = NoHist
  /\ lock = 0
  /\ stats_lock = 0
  /\ pc = [t \in Threads |-> Idle]
  /\ ncall = 0
  /\ conn = "open"
  /\ reply = Reply("", NULL)
  /\ server = Listening
  /\ casky_statistics = Uncounted
  /\ initialized = 1

\* accept returns a connection and pthread_create starts its handler
Accept(c) ==
  /\ server.main = "accept"
  /\ server.server_fd >= 0
  /\ server.client[c] = "none"
  /\ server' = [server EXCEPT !.client[c] = "created"]
  /\ UNCHANGED Elsewhere
  /\ UNCHANGED threads
  /\ UNCHANGED stats

\* handle_signal: SIGINT or SIGTERM
Signal ==
  /\ server.main = "accept"
  /\ server.running = 1
  /\ server' = [server EXCEPT !.running = 0, !.server_fd = -1]
  /\ UNCHANGED Elsewhere
  /\ UNCHANGED threads
  /\ UNCHANGED stats

\* handle_client begins: atomic_fetch_add(&active_clients, 1)
HandlerStart(c) ==
  /\ server.main # "exited"
  /\ server.client[c] = "created"
  /\ server' = [server EXCEPT !.client[c] = "active", !.active_clients = @ + 1]
  /\ UNCHANGED Elsewhere
  /\ UNCHANGED threads
  /\ UNCHANGED stats

\* one turn of the handler's loop on a line that calls the engine; once main
\* has closed the engine the KeyDir the handler holds is freed memory
ClientCall(c, line, arg4, outcome) ==
  /\ server.main # "exited"
  /\ server.client[c] = "active"
  /\ IF db = "open"
     THEN /\ outcome = "return"
          /\ Line(line, arg4, "return")
     ELSE /\ last' = Called("use_after_close", NULL, -1, NULL)
          /\ server' = IF outcome = "crash" THEN [server EXCEPT !.main = "exited"] ELSE server
          /\ UNCHANGED << now, db, kd, log_exists, logfile, tmpfiles, casky_errno, nrec,
                          nfault, hist, conn, reply >>
          /\ UNCHANGED threads
          /\ UNCHANGED stats

\* the handler's loop ends, on QUIT or end of input: atomic_fetch_sub
HandlerExit(c) ==
  /\ server.main # "exited"
  /\ server.client[c] = "active"
  /\ server' = [server EXCEPT !.client[c] = "done", !.active_clients = @ - 1]
  /\ UNCHANGED Elsewhere
  /\ UNCHANGED threads
  /\ UNCHANGED stats

\* accept fails on the closed socket, or while (running) ends the loop
MainLeaveLoop ==
  /\ server.main = "accept"
  /\ server.running = 0
  /\ server' = [server EXCEPT !.main = "wait", !.waited = 0]
  /\ UNCHANGED Elsewhere
  /\ UNCHANGED threads
  /\ UNCHANGED stats

\* one turn of the wait loop: break when active_clients is 0, else sleep
MainWait ==
  /\ server.main = "wait"
  /\ server' = IF server.waited >= ShutdownTurns \/ server.active_clients = 0
               THEN [server EXCEPT !.main = "close"]
               ELSE [server EXCEPT !.waited = @ + 1]
  /\ UNCHANGED Elsewhere
  /\ UNCHANGED threads
  /\ UNCHANGED stats

\* casky_close(db) at the end of main
MainClose ==
  /\ server.main = "close"
  /\ db' = "NULL"
  /\ kd' = NoKeyDir
  /\ casky_errno' = CASKY_OK
  /\ last' = Called("close", NULL, 0, NULL)
  /\ server' = [server EXCEPT !.main = "stopped"]
  /\ UNCHANGED << now, log_exists, logfile, tmpfiles, nrec, nfault, hist, conn, reply >>
  /\ UNCHANGED threads
  /\ UNCHANGED stats

\* main returns and the process, the handler threads with it, ends
MainReturn ==
  /\ server.main = "stopped"
  /\ server' = [server EXCEPT !.main = "exited"]
  /\ UNCHANGED Elsewhere
  /\ UNCHANGED threads
  /\ UNCHANGED stats

NextShutdown ==
  \/ \E c \in Clients : Accept(c)
  \/ Signal
  \/ \E c \in Clients : HandlerStart(c)
  \/ \E c \in Clients, line \in ShutdownLines, arg4 \in TTLs, outcome \in {"return", "crash"} :
       ClientCall(c, line, arg4, outcome)
  \/ \E c \in Clients : HandlerExit(c)
  \/ MainLeaveLoop
  \/ MainWait
  \/ MainClose
  \/ MainReturn

SpecShutdown == InitShutdown /\ [][NextShutdown]_vars

(***************************************************************************)
(* What the properties read off a state.                                   *)
(***************************************************************************)
\* the key has a node in some chain of the keydir
InMemory(k, key) ==
  \E b \in DOMAIN k.root : \E i \in 1..Len(k.root[b]) : k.root[b][i].key = key

\* the last record of the log, read as the reader reads it, whose key is the
\* given one; found is FALSE when there is none
RECURSIVE LastRecordFrom(_, _, _, _)
LastRecordFrom(bytes, pos, key, sofar) ==
  LET r == ReadRecord(bytes, pos)
  IN  IF ~r.ok THEN sofar
      ELSE LastRecordFrom(bytes, r.next, key,
                          IF CStr(r.key) = key
                          THEN [found |-> TRUE, value |-> CStr(r.value), expires |-> r.expires]
                          ELSE sofar)

LastRecordFor(bytes, key) ==
  LastRecordFrom(bytes, 1, key, [found |-> FALSE, value |-> NULL, expires |-> 0])

\* the call the state comes right after was get(key) on the open engine
GotKey(key) == db = "open" /\ last.op = "get" /\ last.key = key

(***************************************************************************)
(* C1.  Read-your-writes: when the latest put or delete call on a key is a *)
(* put(k, v, ttl = 0) that returned 0 on the engine now open, get(k)       *)
(* returns v and leaves the error indicator at CASKY_OK.                   *)
(***************************************************************************)
C1_ReadYourWrites ==
  \A key \in Keys :
    (/\ GotKey(key)
     /\ hist.mut[key].kind = "put"
     /\ hist.mut[key].ok
     /\ hist.mut[key].ttl = 0
     /\ hist.mut[key].cur)
    => (last.val = hist.mut[key].value /\ casky_errno = CASKY_OK)

\* get("zx") answers "" after "zx" was put behind "b" in the same chain
C1_Witness ==
  /\ GotKey(<<122, 120>>)
  /\ hist.mut[<<122, 120>>] =
       [kind |-> "put", ok |-> TRUE, value |-> <<>>, ttl |-> 0, expires |-> 0, cur |-> TRUE]
  /\ Len(Chain(kd, BucketIndex(kd, <<122, 120>>))) = 2
  /\ last.val = <<>>
  /\ now = 2

(***************************************************************************)
(* C2.  A key that no put call was ever made for, or whose latest put or   *)
(* delete call is a delete that returned 0: get(k) returns NULL and the    *)
(* error indicator is CASKY_ERR_KEY_NOT_FOUND.                             *)
(***************************************************************************)
C2_AbsentKeyNotFound ==
  \A key \in Keys :
    (/\ GotKey(key)
     /\ \/ hist.mut[key].kind = "none"
        \/ hist.mut[key].kind = "delete" /\ hist.mut[key].ok)
    => (last.val = NULL /\ casky_errno = CASKY_ERR_KEY_NOT_FOUND)

\* get of a deleted key whose chain still holds another key
C2_Witness ==
  /\ GotKey(<<98>>)
  /\ hist.mut[<<98>>].kind = "delete"
  /\ hist.mut[<<98>>].ok
  /\ hist.mut[<<98>>].cur
  /\ InMemory(kd, <<122, 120>>)
  /\ last.val = NULL

(***************************************************************************)
(* C3.  Round-trip durability: when an engine all of whose puts and        *)
(* deletes succeeded is closed and the same, untouched log is opened with  *)
(* no expiration elapsed, the new engine answers get(k) for every key as   *)
(* the old one did just before the close.                                  *)
(***************************************************************************)
C3_RoundTrip ==
  [][(/\ db = "NULL"
      /\ last.op = "close"
      /\ db' = "open"
      /\ hist.io_ok
      /\ hist.tamper = 0
      /\ (hist.min_exp = 0 \/ hist.min_exp > now'))
     => \A key \in Keys : Answer(kd', key, now') = hist.snap[key]]_vars

(***************************************************************************)
(* C4.  Delete is durable: once the latest put or delete call on k is a    *)
(* delete that returned 0 and the log has been closed and opened again, k  *)
(* has no node in memory, num_entries counts exactly the nodes there are,  *)
(* and get(k) returns NULL with CASKY_ERR_KEY_NOT_FOUND.                   *)
(***************************************************************************)
C4_DeleteDurable ==
  \A key \in Keys :
    (/\ db = "open"
     /\ hist.mut[key].kind = "delete"
     /\ hist.mut[key].ok
     /\ ~hist.mut[key].cur)
    => /\ ~InMemory(kd, key)
       /\ kd.num_entries = NodeCount(kd)
       /\ GotKey(key) => (last.val = NULL /\ casky_errno = CASKY_ERR_KEY_NOT_FOUND)

\* two puts of "b", its delete, a reopen, and get("b")
C4_Witness ==
  /\ GotKey(<<98>>)
  /\ hist.mut[<<98>>].kind = "delete"
  /\ hist.mut[<<98>>].ok
  /\ ~hist.mut[<<98>>].cur
  /\ nrec = 3
  /\ LastRecordFor(logfile, <<98>>).found
  /\ casky_errno = CASKY_ERR_KEY_NOT_FOUND

(***************************************************************************)
(* C5.  Log/index agreement: in every state with an engine open, for every *)
(* entry in memory the last record of its key in the log carries the       *)
(* entry's value and expiration.                                           *)
(***************************************************************************)
C5_LogIndexAgreement ==
  db = "open" =>
    \A b \in DOMAIN kd.root : \A i \in 1..Len(kd.root[b]) :
      LET e == kd.root[b][i]
          r == LastRecordFor(logfile, e.key)
      IN  r.found /\ r.value = e.value /\ r.expires = e.expiration_ts

(***************************************************************************)
(* What the CRC claims read off a log.                                     *)
(***************************************************************************)
\* the stored CRC of the record read at pos is not the CRC of its other fields
BadCrc(bytes, r, pos) ==
  r.crc # casky_crc32(Slice(bytes, pos + 4, r.next - pos - 4))

\* the offset lies in the CRC field of a record, the records before it being
\* read as the reader reads them
RECURSIVE InCrcField(_, _, _)
InCrcField(bytes, pos, offset) ==
  IF offset < pos + 4 THEN TRUE
  ELSE LET r == ReadRecord(bytes, pos)
       IN  IF ~r.ok \/ offset < r.next THEN FALSE
           ELSE InCrcField(bytes, r.next, offset)

\* the reader that checks each CRC and stops at the first mismatch:
\* the keydir it builds, and whether it met a mismatch
RECURSIVE CheckedLoad(_, _, _, _)
CheckedLoad(k, bytes, pos, t) ==
  LET r == ReadRecord(bytes, pos)
  IN  IF ~r.ok THEN [kd |-> k, corrupt |-> FALSE]
      ELSE IF BadCrc(bytes, r, pos) THEN [kd |-> k, corrupt |-> TRUE]
      ELSE CheckedLoad(ApplyRecord(k, r, t), bytes, r.next, t)

\* the state comes right after casky_open returned
JustOpened == last.op = "open"

(***************************************************************************)
(* C6.  CRC safety: after one byte outside the CRC fields of the closed    *)
(* log was altered, a get on the reopened engine never returns a value     *)
(* other than the one put for the key.                                     *)
(***************************************************************************)
C6_CrcSafety ==
  \A key \in Keys :
    (/\ GotKey(key)
     /\ hist.tamper > 0
     /\ ~InCrcField(logfile, 1, hist.tamper)
     /\ last.val # NULL)
    => (hist.mut[key].kind = "put" /\ last.val = hist.mut[key].value)

(***************************************************************************)
(* C7.  When casky_open has read a log holding a record whose CRC does     *)
(* not match, the engine is returned with corrupted_dir set, the error     *)
(* indicator is CASKY_ERR_CORRUPT, and memory holds exactly what the       *)
(* records before the bad one give.                                        *)
(***************************************************************************)
C7_CorruptFlagged ==
  LET c == CheckedLoad([kd EXCEPT !.root = <<>>, !.num_entries = 0], logfile, 1, now)
  IN  (JustOpened /\ c.corrupt)
      => /\ db = "open"
         /\ kd.corrupted_dir = 1
         /\ casky_errno = CASKY_ERR_CORRUPT
         /\ kd.root = c.kd.root
         /\ kd.num_entries = c.kd.num_entries

(***************************************************************************)
(* C8.  test_log_integrity: after the first byte of a log holding one      *)
(* valid PUT record was overwritten, casky_open returns NULL and           *)
(* casky_errno is CASKY_ERR_CORRUPT.                                       *)
(***************************************************************************)
C8_OpenRejectsCorruptLog ==
  (/\ JustOpened
   /\ hist.tamper = 1
   /\ nrec = 1
   /\ \E key \in Keys : hist.mut[key].kind = "put" /\ hist.mut[key].value # <<>>)
  => (db = "NULL" /\ casky_errno = CASKY_ERR_CORRUPT)

(***************************************************************************)
(* What the compaction claims read off a log.                              *)
(***************************************************************************)
\* the records of the log as the reader reads them: how many there are, and
\* how many of them have value_len = 0
RECURSIVE CountRecords(_, _, _)
CountRecords(bytes, pos, sofar) ==
  LET r == ReadRecord(bytes, pos)
  IN  IF ~r.ok THEN sofar
      ELSE CountRecords(bytes, r.next,
                        [records |-> sofar.records + 1,
                         tombstones |-> sofar.tombstones + (IF r.value_len = 0 THEN 1 ELSE 0)])

LogRecords(bytes) == CountRecords(bytes, 1, [records |-> 0, tombstones |-> 0])

(***************************************************************************)
(* C9.  Compaction fidelity: a compact that returns 0 leaves the answer of *)
(* get(k) as it was for every key, leaves a log of exactly num_entries     *)
(* records none of which has value_len = 0, and a log whose replay gives   *)
(* the same answers.                                                       *)
(***************************************************************************)
C9_CompactionFidelity ==
  [][Compact("none")
     => /\ \A key \in Keys : Answer(kd', key, now') = Answer(kd, key, now)
        /\ LogRecords(logfile').records = kd'.num_entries
        /\ LogRecords(logfile').tombstones = 0
        /\ \A key \in Keys :
             Answer(casky_init_kd_from_file(logfile', now'), key, now')
               = Answer(kd', key, now')]_vars

(***************************************************************************)
(* C10.  Compaction failure is clean: a compact that returns -1 because    *)
(* mkstemp, fdopen, a record write or rename failed leaves no temporary    *)
(* file behind and leaves the log file and the keydir as they were.        *)
(***************************************************************************)
C10_CompactFailureClean ==
  [][(\E fault \in {"mkstemp", "fdopen", "write", "rename"} : Compact(fault))
     => /\ tmpfiles' = {}
        /\ logfile' = logfile
        /\ kd' = kd]_vars

(***************************************************************************)
(* C11.  Expiration: when the latest put or delete call on k is a          *)
(* put(k, v, ttl > 0) that returned 0 and the clock has reached the        *)
(* expiration it stored, get(k) returns NULL with                          *)
(* CASKY_ERR_KEY_NOT_FOUND, whatever was put for k before and whatever     *)
(* calls came in between.                                                  *)
(***************************************************************************)
C11_ExpiredNotFound ==
  [][\A key \in Keys :
       (/\ Get(key, "return")
        /\ hist.mut[key].kind = "put"
        /\ hist.mut[key].ok
        /\ hist.mut[key].ttl > 0
        /\ now >= hist.mut[key].expires)
       => (last'.val = NULL /\ casky_errno' = CASKY_ERR_KEY_NOT_FOUND)]_vars

(***************************************************************************)
(* What the index claims read off a keydir.                                *)
(***************************************************************************)
\* the nodes holding the key, each as its bucket and its place in the chain
NodesOf(k, key) ==
  { p \in (DOMAIN k.root) \X (1..(2 * MaxRecords)) :
      p[2] <= Len(k.root[p[1]]) /\ k.root[p[1]][p[2]].key = key }

\* the chain without the nodes of the given key
RECURSIVE Without(_, _)
Without(chain, key) ==
  IF chain = <<>> THEN <<>>
  ELSE IF Head(chain).key = key THEN Without(Tail(chain), key)
  ELSE <<Head(chain)>> \o Without(Tail(chain), key)

\* the two keydirs hold the same entries, in the same order, for every other key
SameOthers(k1, k2, key) ==
  \A b \in DOMAIN k1.root \cup DOMAIN k2.root :
    Without(Chain(k1, b), key) = Without(Chain(k2, b), key)

(***************************************************************************)
(* C17.  With an engine open, after any calls and after recovery,          *)
(* num_entries is the number of nodes on the bucket chains.                *)
(***************************************************************************)
C17_CountMatchesNodes ==
  db = "open" => kd.num_entries = NodeCount(kd)

\* casky_expire has swept an expired "b" out of the chain it shared with "zx"
C17_Witness ==
  /\ db = "open"
  /\ last.op = "expire"
  /\ hist.mut[<<98>>].kind = "put" /\ hist.mut[<<98>>].cur
  /\ hist.mut[<<98>>].expires > 0 /\ now >= hist.mut[<<98>>].expires
  /\ hist.mut[<<122, 120>>].kind = "put" /\ hist.mut[<<122, 120>>].cur
  /\ ~InMemory(kd, <<98>>)
  /\ InMemory(kd, <<122, 120>>)
  /\ kd.num_entries = 1

(***************************************************************************)
(* C18.  A put that returns 0 leaves exactly one node for its key, holding *)
(* the value, timestamp and expiration of the call, at the place the key   *)
(* had if it was present (num_entries unchanged) and at the end of its     *)
(* chain if it was absent (num_entries one more), and leaves every other   *)
(* entry as it was; in every state reached no chain holds two nodes with   *)
(* one key.                                                                *)
(***************************************************************************)
C18_PutReplacesOrAdds ==
  [][/\ \A key \in Keys : Cardinality(NodesOf(kd', key)) <= 1
     /\ \A key \in Keys, value \in Values, ttl \in TTLs :
          (nrec' > nrec /\ Put(key, value, ttl, "none"))
          => LET b == BucketIndex(kd, key)
                 e == Entry(key, value, now, IF ttl > 0 THEN now + ttl ELSE 0)
                 place == IF InMemory(kd, key)
                          THEN FindNode(Chain(kd, b), key, 1)
                          ELSE Len(Chain(kd, b)) + 1
             IN  /\ NodesOf(kd', key) = { <<b, place>> }
                 /\ kd'.root[b][place] = e
                 /\ kd'.num_entries = kd.num_entries + (IF InMemory(kd, key) THEN 0 ELSE 1)
                 /\ SameOthers(kd, kd', key)]_vars

\* "zx", already behind "b" in its chain, has been put again with another value
C18_Witness ==
  /\ db = "open"
  /\ last.op = "put"
  /\ nrec = 3
  /\ kd.num_entries = 2
  /\ Len(Chain(kd, BucketIndex(kd, <<122, 120>>))) = 2
  /\ Chain(kd, BucketIndex(kd, <<122, 120>>))[2] = Entry(<<122, 120>>, <<>>, 2, 3)
  /\ \A key \in Keys : hist.mut[key].kind # "delete" /\ (hist.mut[key].kind = "put" => hist.mut[key].cur)

(***************************************************************************)
(* C19.  delete(k) of a key with no node in memory returns -1 with         *)
(* CASKY_ERR_KEY_NOT_FOUND and leaves the log and the keydir as they       *)
(* were; delete(k) of a key with a node returns 0, removes the node,       *)
(* takes one off num_entries, leaves every other entry as it was and       *)
(* appends exactly one record, with the key, value_len 0 and expiration 0. *)
(***************************************************************************)
C19_DeleteFrame ==
  [][\A key \in Keys :
       (last'.op = "delete" /\ Delete(key, "none"))
       => IF ~InMemory(kd, key)
          THEN /\ last'.rc = -1
               /\ casky_errno' = CASKY_ERR_KEY_NOT_FOUND
               /\ logfile' = logfile
               /\ kd' = kd
          ELSE LET r == ReadRecord(logfile', Len(logfile) + 1)
               IN  /\ last'.rc = 0
                   /\ casky_errno' = CASKY_OK
                   /\ ~InMemory(kd', key)
                   /\ kd'.num_entries = kd.num_entries - 1
                   /\ SameOthers(kd, kd', key)
                   /\ SubSeq(logfile', 1, Len(logfile)) = logfile
                   /\ r.ok /\ r.next = Len(logfile') + 1
                   /\ CStr(r.key) = key /\ r.value_len = 0 /\ r.expires = 0]_vars

\* "zx" has been deleted from behind "b", which stays
C19_Witness ==
  /\ db = "open"
  /\ last.op = "delete"
  /\ last.rc = 0
  /\ hist.mut[<<122, 120>>].kind = "delete"
  /\ InMemory(kd, <<98>>)
  /\ LogRecords(logfile).records = 3

(***************************************************************************)
(* The thread-safe build                                                   *)
(***************************************************************************)
\* the thread is between LOCK and UNLOCK of its call
InBody(t) == pc[t].at \in {"stats", "body", "log", "rename", "unlock"}

\* C12: a thread that is in no call (every call it made has returned) does
\* not hold the engine mutex.
C12_LockReleased == \A t \in Threads : pc[t].at = "idle" => lock # t

\* C13: a thread waiting for the engine mutex waits for a thread that is
\* inside its call and will unlock (never for itself, never for a thread that
\* has returned), likewise for the statistics mutex, and the statistics mutex
\* is held only by the holder of the engine mutex.
C13_NoThreadBlockedForever ==
  /\ \A t \in Threads :
       (pc[t].at = "lock" /\ lock # 0) => (lock # t /\ InBody(lock))
  /\ \A t \in Threads :
       (pc[t].at = "stats" /\ stats_lock # 0) => (stats_lock # t /\ InBody(stats_lock))
  /\ stats_lock # 0 => lock = stats_lock

\* C14: the records are appended in the order the puts and deletes changed
\* the index, and whenever no thread is inside a call, replaying the log
\* gives every key the answer the index gives.
C14_Serializable ==
  /\ Len(hist.logged) <= Len(hist.applied)
  /\ hist.logged = SubSeq(hist.applied, 1, Len(hist.logged))
  /\ (\A t \in Threads : ~InBody(t))
       => \A key \in Keys :
            Answer(casky_init_kd_from_file(logfile, now), key, now) = Answer(kd, key, now)

\* C15: from LOCK to UNLOCK of a compact call no other thread is inside a
\* call, the index does not change, and the log changes only by the rename,
\* which leaves it holding exactly the entries of the index.
C15_CompactAtomic ==
  [][\A t \in Threads :
       (pc[t].op = "compact" /\ InBody(t))
       => /\ \A u \in Threads \ {t} : ~InBody(u)
          /\ kd' = kd
          /\ pc[t].at = "rename" => pc[t].tmp = CompactedLog(kd)
          /\ \/ logfile' = logfile
             \/ /\ pc[t].at = "rename"
                /\ pc'[t].at = "unlock"
                /\ logfile' = CompactedLog(kd)]_vars

C15_Witness ==
  \E t, u \in Threads :
    /\ pc[t].op = "compact" /\ pc[t].at = "rename" /\ pc[t].tmp # <<>>
    /\ pc[u].op = "put" /\ pc[u].at = "lock"
    /\ Len(hist.logged) = 1

\* C16: no two threads are between LOCK and UNLOCK at once.
C16_MutualExclusion ==
  \A t, u \in Threads : t # u => ~(InBody(t) /\ InBody(u))

C16_Witness ==
  \E t, u \in Threads :
    /\ pc[t].op = "put" /\ pc[t].at = "log"
    /\ pc[u].op = "get" /\ pc[u].at = "lock" /\ pc[u].key = pc[t].key
    /\ lock = t

\* C20: a call with a null engine (put, get, delete, compact) returns its
\* failure value with CASKY_ERR_INVALID_POINTER, and a put with a null key or
\* value, a get or delete with a null key, with CASKY_ERR_INVALID_KEY; the
\* index, the log and both mutexes are as they were.
C20_InvalidArgsNoEffect ==
  [][pc' = pc =>
     \A op \in {"put", "get", "delete", "compact"} :
       last'.op = op =>
       \A t \in Threads, engine \in {"NULL", "open"}, key \in ThreadKeys \cup {NULL},
          value \in Values \cup {NULL} :
         LET nullkey == \/ op = "put" /\ (key = NULL \/ value = NULL)
                        \/ op \in {"get", "delete"} /\ key = NULL
         IN  ((engine = "NULL" \/ nullkey) /\ ThreadCall(t, op, engine, key, value))
             => /\ last'.rc = -1 /\ last'.val = NULL
                /\ casky_errno' = IF engine = "NULL" THEN CASKY_ERR_INVALID_POINTER
                                  ELSE CASKY_ERR_INVALID_KEY
                /\ kd' = kd /\ logfile' = logfile
                /\ lock' = lock /\ stats_lock' = stats_lock]_vars

C20_Witness ==
  /\ last.op = "get" /\ last.rc = -1
  /\ casky_errno = CASKY_ERR_INVALID_KEY
  /\ \E t \in Threads : lock = t /\ pc[t].at = "log"
  /\ kd.num_entries = 2

\* C21: casky_open with a null path or with the empty path returns NULL with
\* CASKY_ERR_INVALID_PATH and creates no file.
C21_OpenInvalidPath ==
  [][\A path \in BadPaths :
       OpenInvalid(path)
       => /\ last'.op = "open" /\ last'.rc = -1
          /\ db' = db /\ kd' = kd
          /\ casky_errno' = CASKY_ERR_INVALID_PATH
          /\ log_exists' = log_exists /\ logfile' = logfile /\ tmpfiles' = tmpfiles]_vars

\* C22: a put or delete whose append fails, in opening the stream or in
\* writing, returns -1 with CASKY_ERR_IO, keeps the change it made in memory,
\* and leaves the log without any part of the record.
C22_AppendFailure ==
  [][/\ \A key \in Keys, value \in Values, ttl \in TTLs, fault \in {"append", "write"} :
          (last'.op = "put" /\ Put(key, value, ttl, fault))
          => /\ last'.rc = -1 /\ casky_errno' = CASKY_ERR_IO
             /\ kd' = casky_put_in_memory(kd, key, value, now,
                                          IF ttl > 0 THEN now + ttl ELSE 0)
             /\ logfile' = logfile
     /\ \A key \in Keys, fault \in {"append", "write"} :
          (last'.op = "delete" /\ Delete(key, fault))
          => /\ last'.rc = -1 /\ casky_errno' = CASKY_ERR_IO
             /\ kd' = casky_delete_from_memory(kd, key).kd
             /\ logfile' = logfile]_vars

(***************************************************************************)
(* What the recovery claims read off a log and a keydir.                   *)
(***************************************************************************)
\* no PUT record of the log expires after time t1 and by time t2
NoExpiryBetween(bytes, t1, t2) ==
  LET rs == RecordsFrom(bytes, 1)
  IN  \A i \in 1..Len(rs) :
        rs[i].value_len > 0 => ~(t1 < rs[i].expires /\ rs[i].expires <= t2)

\* the (key, value) pairs of each bucket
PairsOf(k) ==
  [b \in DOMAIN k.root |-> { << k.root[b][i].key, k.root[b][i].value >> : i \in 1..Len(k.root[b]) }]

\* C23: casky_open leaves the log file as it is, and opening the same log
\* again, at the same time or later with no expiration of its records falling
\* in between, gives the same (key, value) pairs in every bucket and the same
\* num_entries.
C23_RecoveryIdempotent ==
  [][Open
     => /\ logfile' = logfile
        /\ \A t \in now..(MaxTime + MaxTTL) :
             NoExpiryBetween(logfile', now, t)
             => LET again == casky_init_kd_from_file(logfile', t)
                IN  /\ PairsOf(again) = PairsOf(kd')
                    /\ again.num_entries = kd'.num_entries]_vars

C23_Witness ==
  /\ JustOpened
  /\ db = "open"
  /\ now = 1
  /\ kd.num_entries = 2
  /\ LogRecords(logfile).records = 2
  /\ NoExpiryBetween(logfile, 1, MaxTime + MaxTTL)

(***************************************************************************)
(* The line protocol: what the lines sent mean.                            *)
(***************************************************************************)
\* the PUT lines with their key and value, the GET and DEL lines with their key
PutLines ==
  { << <<80, 85, 84, 32, 98, 32, 49, 10>>, <<98>>, <<49>> >>,
    << <<112, 117, 116, 32, 122, 120, 32, 49, 10>>, <<122, 120>>, <<49>> >> }

GetLines ==
  { << <<71, 69, 84, 32, 98, 10>>, <<98>> >>,
    << <<103, 101, 116, 32, 122, 120, 13, 10>>, <<122, 120>> >> }

DelLines ==
  { << <<68, 69, 76, 32, 98, 10>>, <<98>> >>,
    << <<68, 69, 76, 32, 122, 120, 10>>, <<122, 120>> >> }

ReplayedUpTo(bytes, rs, n, t) ==
  casky_init_kd_from_file(SubSeq(bytes, 1, IF n = 0 THEN 0 ELSE rs[n].next - 1), t)

\* C25: casky_open applies the records in log order; one with value_len 0
\* removes its key, if present, and nothing else; one with value_len > 0 and
\* expiration 0 or later than now puts its key with the value, timestamp and
\* expiration decoded, changing nothing else; an expired one changes nothing.
C25_ReplayClassifies ==
  [][Open
     => LET rs == RecordsFrom(logfile, 1)
        IN  /\ kd' = [ReplayedUpTo(logfile, rs, Len(rs), now) EXCEPT !.log = "open"]
            /\ \A i \in 1..Len(rs) :
                 LET before == ReplayedUpTo(logfile, rs, i - 1, now)
                     after == ReplayedUpTo(logfile, rs, i, now)
                     key == CStr(rs[i].key)
                 IN  IF rs[i].value_len = 0
                     THEN /\ NodesOf(after, key) = {}
                          /\ SameOthers(before, after, key)
                          /\ after.num_entries
                               = before.num_entries - Cardinality(NodesOf(before, key))
                     ELSE IF rs[i].expires = 0 \/ rs[i].expires > now
                     THEN /\ \E p \in NodesOf(after, key) :
                               /\ NodesOf(after, key) = {p}
                               /\ after.root[p[1]][p[2]]
                                    = Entry(key, CStr(rs[i].value), rs[i].timestamp, rs[i].expires)
                          /\ SameOthers(before, after, key)
                          /\ after.num_entries
                               = before.num_entries + 1 - Cardinality(NodesOf(before, key))
                     ELSE after = before]_vars

\* recovery has met a PUT it applied, an expired PUT it dropped, and a
\* tombstone
C25_Witness ==
  /\ JustOpened
  /\ db = "open"
  /\ now = 2
  /\ kd.num_entries = 1
  /\ LET rs == RecordsFrom(logfile, 1)
     IN  /\ Len(rs) = 2
         /\ rs[1].value_len > 0 /\ rs[1].expires = 2
         /\ rs[2].value_len > 0 /\ rs[2].expires = 0

\* the entry is due: it has an expiration and the time has reached it
Due(e, t) == e.expiration_ts > 0 /\ e.expiration_ts <= t

NotDue(e) == ~Due(e, now)

\* C26: casky_expire removes from every chain exactly the entries whose
\* expiration is not 0 and not after now, keeps the others as they are and in
\* their order, lowers num_entries by the number removed, and leaves the log
\* alone.
C26_ExpireFrame ==
  [][(last'.op = "expire" /\ Expire)
     => /\ \A b \in DOMAIN kd.root \cup DOMAIN kd'.root :
             Chain(kd', b) = SelectSeq(Chain(kd, b), NotDue)
        /\ kd'.num_entries = kd.num_entries - (NodeCount(kd) - NodeCount(kd'))
        /\ logfile' = logfile]_vars

\* expire has removed two entries next to each other in one chain and kept
\* an entry of another chain
C26_Witness ==
  /\ last.op = "expire"
  /\ now = 2
  /\ kd.num_entries = 1
  /\ InMemory(kd, <<97>>)
  /\ \A key \in { <<98>>, <<122, 120>> } :
       /\ hist.mut[key].kind = "put" /\ hist.mut[key].cur
       /\ hist.mut[key].expires = 2
       /\ ~InMemory(kd, key)

\* C27: a casky_get that finds the entry of its key due returns NULL with
\* CASKY_ERR_KEY_NOT_FOUND and removes that entry and nothing else, writing
\* nothing to the log; one that finds it not due returns its value and leaves
\* the index as it is.
C27_GetExpiredRemoves ==
  [][\A key \in Keys :
       (/\ last'.op \in {"get", "get_crash"}
        /\ InMemory(kd, key)
        /\ Get(key, "return") \/ Get(key, "crash"))
       => LET chain == Chain(kd, BucketIndex(kd, key))
              e == chain[FindNode(chain, key, 1)]
          IN  IF Due(e, now)
              THEN /\ last' = Called("get", key, 0, NULL)
                   /\ casky_errno' = CASKY_ERR_KEY_NOT_FOUND
                   /\ ~InMemory(kd', key)
                   /\ kd'.num_entries = kd.num_entries - 1
                   /\ SameOthers(kd, kd', key)
                   /\ logfile' = logfile
              ELSE /\ last' = Called("get", key, 0, e.value)
                   /\ casky_errno' = CASKY_OK
                   /\ kd' = kd
                   /\ logfile' = logfile]_vars

\* C28: casky_open on a log whose last record is cut short, inside its
\* header, key or value, returns an engine with CASKY_OK that holds what the
\* complete records before it give, the partial record counting for nothing.
C28_TruncatedTail ==
  [][(/\ Open
      /\ hist.whole # <<>>
      /\ Len(logfile) < Len(hist.whole)
      /\ Len(logfile) >= LastStart(hist.whole)
      /\ logfile = SubSeq(hist.whole, 1, Len(logfile)))
     => /\ db' = "open"
        /\ last' = Called("open", NULL, 0, NULL)
        /\ casky_errno' = CASKY_OK
        /\ kd' = [casky_init_kd_from_file(
                     SubSeq(hist.whole, 1, LastStart(hist.whole) - 1), now)
                    EXCEPT !.log = "open"]]_vars

\* the log opened had one complete record and a second one cut inside its key
C28_Witness ==
  /\ JustOpened
  /\ db = "open"
  /\ hist.whole # <<>>
  /\ logfile = SubSeq(hist.whole, 1, Len(logfile))
  /\ LastStart(hist.whole) > 1
  /\ Len(logfile) = LastStart(hist.whole) + HeaderLen - 1
  /\ kd.num_entries = 1

\* C29: the record the writer appends for a key, a value or none, a
\* timestamp and an expiration is read back by the reader of recovery as that
\* key, value, timestamp and expiration, with value_len 0 exactly for a
\* tombstone, and the reader ends at the start of the next record.
C29_CodecRoundTrip ==
  [][/\ \A key \in Keys, value \in Values, ttl \in TTLs :
          (nrec' > nrec /\ Put(key, value, ttl, "none"))
          => LET r == ReadRecord(logfile', Len(logfile) + 1)
             IN  /\ r.ok
                 /\ r.next = Len(logfile') + 1
                 /\ r.key_len = Len(key) /\ CStr(r.key) = key
                 /\ r.value_len # 0
                 /\ r.value_len = Len(value) /\ CStr(r.value) = value
                 /\ r.timestamp = now
                 /\ r.expires = IF ttl > 0 THEN now + ttl ELSE 0
     /\ \A key \in Keys :
          (nrec' > nrec /\ Delete(key, "none"))
          => LET r == ReadRecord(logfile', Len(logfile) + 1)
             IN  /\ r.ok
                 /\ r.next = Len(logfile') + 1
                 /\ r.key_len = Len(key) /\ CStr(r.key) = key
                 /\ r.value_len = 0
                 /\ r.timestamp = now
                 /\ r.expires = 0]_vars

\* C30: after a casky_compact that returned 0 the log at the original path
\* is the compacted file and the engine's handle is open on it; every later
\* put or delete of that engine that returns 0 appends its record to that
\* file; and when the engine is then closed and the log opened again with
\* no expiration elapsed, the new engine answers get(k) for every key as
\* the old one did just before the close.
C30_CompactKeepsAppending ==
  [][/\ (last'.op = "compact" /\ last'.rc = 0 /\ Compact("none"))
          => /\ logfile' = CompactedLog(kd)
             /\ kd'.log = "open"
             /\ hist'.compacted
     /\ (hist.compacted /\ nrec' > nrec /\ last'.rc = 0)
          => LET r == ReadRecord(logfile', Len(logfile) + 1)
             IN  /\ kd'.log = "open"
                 /\ SubSeq(logfile', 1, Len(logfile)) = logfile
                 /\ r.ok
                 /\ r.next = Len(logfile') + 1
     /\ (/\ hist.compacted
         /\ db = "NULL"
         /\ last.op = "close"
         /\ db' = "open"
         /\ hist.io_ok
         /\ hist.tamper = 0
         /\ (hist.min_exp = 0 \/ hist.min_exp > now'))
          => \A key \in Keys : Answer(kd', key, now') = hist.snap[key]]_vars

\* C31: casky_open on the path where no file exists creates the log file
\* empty and returns an engine with num_entries = 0, no node and
\* casky_errno CASKY_OK; and casky_open on the path whose log is empty, as it
\* is after that engine was closed, succeeds and again gives an engine with
\* no entry.
C31_OpenCreatesEmptyLog ==
  [][/\ (db = "NULL" /\ ~log_exists /\ Open)
          => /\ log_exists'
             /\ logfile' = <<>>
             /\ db' = "open"
             /\ kd'.log = "open"
             /\ kd'.num_entries = 0
             /\ NodeCount(kd') = 0
             /\ casky_errno' = CASKY_OK
     /\ (db = "NULL" /\ log_exists /\ logfile = <<>> /\ Open)
          => /\ log_exists'
             /\ logfile' = <<>>
             /\ db' = "open"
             /\ kd'.log = "open"
             /\ kd'.num_entries = 0
             /\ NodeCount(kd') = 0
             /\ casky_errno' = CASKY_OK]_vars

C31_Witness ==
  /\ db = "open"
  /\ last.op = "open"
  /\ last.rc = 0
  /\ log_exists
  /\ logfile = <<>>
  /\ kd.num_entries = 0
  /\ casky_errno = CASKY_OK

\* C33: an engine returned by casky_open has sync_on_write = 0, as the
\* documentation of casky_open states, so that put and delete do not fsync
\* unless the caller sets the flag afterwards.
C33_SyncOffByDefault ==
  (db = "open" /\ last.op = "open") => kd.sync_on_write = 0

\* C35: no operation reads the key, the value or the next link of a chain
\* node after the node was freed; in particular the walk of get does not go
\* on from a node it has just removed.
C35_NoUseAfterFree ==
  [][\A key \in Keys :
       (db = "open" /\ last'.op \in {"get", "get_crash"} /\ last'.key = key)
       => ~casky_get_from_memory(kd, key, now).uaf]_vars

\* the keydir of an engine opened on an empty log
InitialKeyDir == casky_init_kd_from_file(<<>>, 1)

\* C36: a put that returned 0 is never recorded as a deletion: for every
\* value, the empty string included, the record it appends is read back as a
\* PUT of the key with that value, so that replaying it leaves the key
\* present with the value; and no record casky_compact writes for an entry
\* of the index is a tombstone.
C36_PutNeverTombstone ==
  [][/\ \A key \in Keys, value \in Values, ttl \in TTLs :
          (last'.op = "put" /\ last'.rc = 0 /\ nrec' > nrec
             /\ Put(key, value, ttl, "none"))
          => LET r == ReadRecord(logfile', Len(logfile) + 1)
                 k == ApplyRecord(InitialKeyDir, r, now)
             IN  /\ r.ok
                 /\ InMemory(k, key)
                 /\ Answer(k, key, now) = value
     /\ (last'.op = "compact" /\ last'.rc = 0)
          => \A i \in 1..Len(RecordsFrom(logfile', 1)) :
               RecordsFrom(logfile', 1)[i].value_len # 0]_vars

\* the key of the record appended to the log: key_len is the byte at offset
\* 20 of the record, the key follows the header
AppendedKey(before, after) ==
  Slice(after, Len(before) + HeaderLen + 1, after[Len(before) + 21])

ReturnedFromPut(t) ==
  /\ pc[t] = Idle
  /\ last = Called("put", NULL, 0, NULL)
  /\ hist.logged # <<>>
  /\ hist.logged[Len(hist.logged)][1] = t
  /\ hist.logged[Len(hist.logged)][3] # NULL

\* C39: what a thread reads in casky_errno after one of its own calls has
\* returned, and before it makes another, is the error code of that call:
\* after a put that returned 0 it reads CASKY_OK, whatever the other
\* threads are doing.
C39_ErrnoIsOwn ==
  \A t \in Threads : ReturnedFromPut(t) => casky_errno = CASKY_OK

\* the bytes of all the entries of the index, as the statistics count them
RECURSIVE ChainBytes(_)
ChainBytes(chain) ==
  IF chain = <<>> THEN 0 ELSE EntryBytes(Head(chain)) + ChainBytes(Tail(chain))

RECURSIVE RootBytes(_, _)
RootBytes(root, bs) ==
  IF bs = {} THEN 0
  ELSE LET b == CHOOSE c \in bs : TRUE
       IN  ChainBytes(root[b]) + RootBytes(root, bs \ {b})

TotalBytes(k) == RootBytes(k.root, DOMAIN k.root)

\* C32: every put adds len(key) + len(value) to memory_bytes and one to
\* num_puts; every removal of an entry, by delete, by a get that finds it
\* expired or by the expire sweep, takes its len(key) + len(value) off
\* memory_bytes once and adds one to num_deletes; and memory_bytes never
\* goes below zero.
C32_StatisticsAccounting ==
  [][/\ \A key \in Keys, value \in Values, ttl \in TTLs :
          (last'.op = "put" /\ Put(key, value, ttl, "none"))
          => /\ casky_statistics'.num_puts = casky_statistics.num_puts + 1
             /\ casky_statistics'.memory_bytes
                  = casky_statistics.memory_bytes + Len(key) + Len(value)
             /\ casky_statistics'.num_deletes = casky_statistics.num_deletes
     /\ (db = "open" /\ last'.op \in {"delete", "get", "expire"} /\ last'.rc = 0)
          => /\ casky_statistics'.num_deletes
                  = casky_statistics.num_deletes + (NodeCount(kd) - NodeCount(kd'))
             /\ casky_statistics'.memory_bytes
                  = casky_statistics.memory_bytes - (TotalBytes(kd) - TotalBytes(kd'))
             /\ casky_statistics'.num_puts = casky_statistics.num_puts
     /\ casky_statistics'.memory_bytes >= 0]_vars

\* the PUT records of the log that are not expired at time t
LivePuts(bytes, t) ==
  { i \in 1..Len(RecordsFrom(bytes, 1)) :
      LET r == RecordsFrom(bytes, 1)[i]
      IN  r.value_len # 0 /\ (r.expires = 0 \/ r.expires > t) }

\* C34: the statistics are initialised once per process: the first
\* casky_open starts the counters from zero, and a later casky_open leaves
\* total_keys, memory_bytes, num_puts, num_gets and num_deletes as they were
\* apart from what the replay of the log adds: nothing for an empty log or
\* an invalid path, otherwise one put per live PUT record, no get, and the
\* deletes of its tombstones.
C34_StatsInitialisedOnce ==
  [][/\ (db = "NULL" /\ db' = "open")
          => LET from == IF initialized = 0 THEN casky_stats_init ELSE casky_statistics
             IN  /\ initialized' = 1
                 /\ casky_statistics'
                      = LoadStats(from, casky_init_kd_from_file(<<>>, now), logfile, 1, now)
                 /\ casky_statistics'.num_gets = from.num_gets
                 /\ casky_statistics'.num_puts
                      = from.num_puts + Cardinality(LivePuts(logfile, now))
                 /\ casky_statistics'.num_deletes >= from.num_deletes
                 /\ logfile = <<>> => casky_statistics' = from
     /\ (last'.op = "open" /\ last'.rc = -1)
          => /\ initialized' = 1
             /\ casky_statistics'
                  = IF initialized = 0 THEN casky_stats_init ELSE casky_statistics]_vars

C34_Witness ==
  /\ db = "open"
  /\ last.op = "open"
  /\ last.rc = 0
  /\ initialized = 1
  /\ casky_statistics.num_gets = 1
  /\ casky_statistics.num_puts = 2
  /\ kd.num_entries = 1

\* C37: with one engine open in the process, total_keys equals the engine's
\* num_entries after any put, get, delete or expire: a call that finds the
\* two equal leaves them equal.
C37_TotalKeysIsNumEntries ==
  [][(/\ db = "open"
      /\ db' = "open"
      /\ last'.op \in {"put", "get", "delete", "expire"}
      /\ casky_statistics.total_keys = kd.num_entries)
     => casky_statistics'.total_keys = kd'.num_entries]_vars

\* C40: after a termination signal main calls casky_close on the shared
\* engine only when no handler thread that was started can still call the
\* engine, and no handler calls the engine after it was closed.
C40_ShutdownSafety ==
  [][/\ (server.main = "close" /\ server'.main = "stopped")
          => \A c \in Clients : server.client[c] \in {"none", "done"}
     /\ last'.op # "use_after_close"]_vars
====
